---- MODULE Spec2Model ----
(***************************************************************************)
(* Task service: the optimistic-concurrency write protocol of              *)
(* internal/service/task_service.go over the repository of internal/repo   *)
(* (TaskRepo) and the tasks table with its BEFORE UPDATE trigger.          *)
(*                                                                         *)
(* Every request runs on its own worker; the workers share nothing but the *)
(* tasks table.  One action is one store round-trip of a service call      *)
(* together with the local code around it.                                 *)
(***************************************************************************)
EXTENDS Integers, Sequences, FiniteSets, TLC

\* ---------------------------------------------------------------- bounds
NumWorkers == 2        \* concurrent request workers
NumIds == 2            \* identifiers uuid.New can hand out / callers can name
MaxCalls == 2          \* service calls started in one behaviour
MaxClock == 2          \* last clock reading
MaxExpected == 2       \* largest expected version a caller submits
MaxRaceVersion == 2    \* largest stored version the write race starts from
MaxPage == 3           \* largest page number a caller asks for
MaxTotal == 12         \* most stored tasks the page arithmetic is run on
MaxSize == 6           \* largest page size the page arithmetic is run on
IntBits == 8           \* width of the Go int the query parameters are parsed to

Workers == 1..NumWorkers
Ids == 1..NumIds

\* ---------------------------------------------------------------- values
Nil == "nil"           \* nil *string / nil *Status / SQL NULL text
NoTime == 0            \* nil *time.Time / SQL NULL timestamptz
NoVersion == 0         \* nil *int (PatchTaskRequest.Version), zero int

StatusPending == "Pending"
StatusInProgress == "InProgress"
StatusCompleted == "Completed"
StatusCancelled == "Cancelled"
Statuses == {StatusPending, StatusInProgress, StatusCompleted, StatusCancelled}

\* errors, by identity (errors.New): the two packages declare their own
SvcErrNotFound == "service.ErrNotFound"
SvcErrVersionConflict == "service.ErrVersionConflict"
RepoErrNotFound == "repo.ErrNotFound"
RepoErrVersionConflict == "repo.ErrVersionConflict"
NoErr == "nil"

\* an error of the store itself (pgx), wrapped by the repository with %w
StoreErr == "store error"

\* the zero domain.Task (no task loaded / nil result)
NoTask ==
  [title |-> Nil, description |-> Nil, status |-> Nil, due_date |-> NoTime,
   created_at |-> 0, updated_at |-> 0, version |-> 0]

\* a request body; absent optional members are nil
NoReq ==
  [title |-> Nil, description |-> Nil, status |-> Nil, due_date |-> NoTime,
   version |-> NoVersion]

Body(t, d, s, due) ==
  [title |-> t, description |-> d, status |-> s, due_date |-> due,
   version |-> NoVersion]

\* request bodies the callers send
CreateBodies ==
  { Body("t1", Nil, Nil, NoTime),
    Body("t1", "d1", StatusInProgress, 1) }

UpdateBodies ==
  { Body("t2", Nil, StatusCompleted, NoTime),
    Body("t3", "d2", StatusInProgress, 2) }

PatchBodies ==
  { Body(Nil, Nil, Nil, NoTime),
    Body(Nil, Nil, StatusCancelled, NoTime),
    Body("t4", "d3", Nil, 2) }

WithVersion(b, v) == [b EXCEPT !.version = v]

\* the sort tokens of isValidSortField
Sorts == {"created_at", "-created_at", "due_date", "-due_date"}

\* the zero domain.TaskFilter and the nil *domain.TaskList
NoFilter == [status |-> Nil, page |-> 0, size |-> 0, sort |-> ""]

NoList ==
  [items |-> <<>>,
   meta |-> [page |-> 0, pageSize |-> 0, totalItems |-> 0, totalPages |-> 0]]

\* the Go int, two's complement on IntBits bits
MaxInt == 2 ^ (IntBits - 1) - 1
MinInt == 0 - 2 ^ (IntBits - 1)

\* the value an int operation leaves when the exact result is n
WrapInt(n) == ((n - MinInt) % (2 ^ IntBits)) + MinInt

\* a header or query parameter is a string: the sequence of its characters
NoParam == <<>>

\* r.URL.Query() of a request without parameters
NoQuery == [page |-> NoParam, page_size |-> NoParam, status |-> "", sort |-> ""]

\* a JSON body as it arrives: an absent member is nil, the version member is
\* <<>> when absent and <<n>> when it is the number n
NoBody ==
  [title |-> Nil, description |-> Nil, status |-> Nil, due_date |-> NoTime,
   version |-> <<>>]

JsonBody(t, d, s, due, v) ==
  [title |-> t, description |-> d, status |-> s, due_date |-> due,
   version |-> v]

\* no response written yet
NoResp == [status |-> 0, code |-> ""]

\* what one attempt of the HTTP client met: kind = "status" with the status
\* the server answered, or the error raw.Do / io.ReadAll returned
Outcome(kind, status) == [kind |-> kind, status |-> status]
NoOutcome == Outcome("none", 0)

\* no HTTP client call: method, cfg.MaxRetries, the attempts counter of
\* Client.Do, and as history configured = the MaxRetries handed to New and
\* last = the outcome of the latest attempt; err = the error Do returned
NoClient ==
  [method |-> "", MaxRetries |-> 0, configured |-> 0, attempts |-> 0,
   last |-> NoOutcome, err |-> "nil"]

\* page sizes the callers ask for, after pagination.Parse
PageSizes == {2, 10}

\* filters the handler passes to the service
ListFilters ==
  [status : {Nil, StatusInProgress}, page : 1..MaxPage, size : PageSizes,
   sort : Sorts]

UpdateReqs == { WithVersion(b, v) : b \in UpdateBodies, v \in 1..MaxExpected }
PatchReqs == { WithVersion(b, v) : b \in PatchBodies, v \in 0..MaxExpected }

\* ---------------------------------------------------------------- state
VARIABLES
  tasks,     \* the tasks table: id -> row, for the ids that have a row
  used,      \* identifiers uuid.New has returned
  clock,     \* clock.app: time.Now of the service; clock.db: now() of the store
  call,      \* per worker: the service call it runs, its locals and outcome
  calls,     \* number of calls started
  nOk        \* per id: update/patch calls that returned without error

vars == <<tasks, used, clock, call, calls, nOk>>

\* A call record.  op, id, req: the call; pc: its position; task: the local
\* *domain.Task; err, ret: what it returned.  The rest is history kept for the
\* properties: loaded = the row the call read first; pre, post = the row right
\* before and right after the call's own write; wrote = its write was applied;
\* mism = on one of its store accesses the row existed with a version other
\* than the one the call expects; absent = on its last store access there was
\* no row.  For a List: filter = its domain.TaskFilter, total = the local
\* total, list = the domain.TaskList it returned, seen = (history) the table
\* at its count query.  For a request through a handler: query = the URL
\* query, body = the decoded JSON body, ifMatch = the If-Match header, resp =
\* the status and error code written; attempts = (history) the conditional
\* writes the call has issued.  For a call of the HTTP client: client.  For
\* a GET /readyz: db = (history) "up" if the pool main opened could reach the
\* database when the request came, "down" if not.
Idle ==
  [op |-> "none", pc |-> "idle", id |-> 0, req |-> NoReq, task |-> NoTask,
   err |-> NoErr, ret |-> NoTask,
   loaded |-> NoTask, pre |-> NoTask, post |-> NoTask,
   wrote |-> FALSE, mism |-> FALSE, absent |-> FALSE,
   filter |-> NoFilter, total |-> 0, list |-> NoList, seen |-> <<>>,
   query |-> NoQuery, body |-> NoBody, ifMatch |-> NoParam, resp |-> NoResp,
   attempts |-> 0, client |-> NoClient, db |-> "none"]

Exists(t) == t \in DOMAIN tasks

\* (mutant) a soft delete: the row stays in the table
RemoveKeepingRow(tbl, t) == tbl

\* DELETE FROM tasks WHERE id = $1
Remove(tbl, t) == [x \in DOMAIN tbl \ {t} |-> tbl[x]]

Put(tbl, t, row) == [x \in DOMAIN tbl \cup {t} |-> IF x = t THEN row ELSE tbl[x]]

Advance(c) == { n \in c..(c + 1) : n <= MaxClock }

\* ---------------------------------------------------------------- store
\* (mutant) a trigger that bumps the row only when a column changed
update_only_when_changed(old, new, now) ==
  IF new = old THEN new
  ELSE [new EXCEPT !.updated_at = now, !.version = old.version + 1]

\* BEFORE UPDATE trigger of the tasks table
update_task_modified_column(old, new, now) ==
  [new EXCEPT !.updated_at = now, !.version = old.version + 1]

\* SET title = $2, description = $3, status = $4, due_date = $5
SetColumns(old, task) ==
  [old EXCEPT !.title = task.title, !.description = task.description,
              !.status = task.status, !.due_date = task.due_date]

\* (mutant) the UPDATE without its version predicate: WHERE id = $1
WhereIdOnly(tbl, t, version) ==
  t \in DOMAIN tbl

\* WHERE id = $1 AND version = $6
WhereIdVersion(tbl, t, version) ==
  t \in DOMAIN tbl /\ tbl[t].version = version

\* (mutant) an UPDATE that stamps created_at as well
UpdatedRowRestamped(old, task, now) ==
  [update_task_modified_column(old, SetColumns(old, task), now)
     EXCEPT !.created_at = now]

\* the row an UPDATE statement leaves behind
UpdatedRow(old, task, now) ==
  update_task_modified_column(old, SetColumns(old, task), now)

\* ---------------------------------------------------------------- service
\* A request is taken by a worker that has returned from its call, or by the
\* first worker of the pool that has not run yet.
CanStart(w) ==
  /\ calls < MaxCalls
  /\ \/ call[w].pc = "done"
     \/ /\ call[w].pc = "idle"
        /\ \A v \in Workers : v < w => call[v].pc # "idle"

Begin(w, op, t, req) ==
  [Idle EXCEPT !.op = op, !.id = t, !.req = req]

\* what a handler writes: the HTTP status and, for an error, its code
Resp(status, code) == [status |-> status, code |-> code]

\* errors.Is on the sentinel errors: none of them wraps another
ErrorsIs(err, target) == err = target

\* CreateTask, lines 81-88
CreateTaskResponse(err) ==
  IF err # NoErr THEN Resp(500, "internal_error") ELSE Resp(201, "")

\* GetTask, lines 100-111
GetTaskResponse(err) ==
  IF err = NoErr THEN Resp(200, "")
  ELSE IF ErrorsIs(err, RepoErrNotFound) THEN Resp(404, "not_found")
  ELSE Resp(500, "internal_error")

\* ListTasks, lines 155-162
ListTasksResponse(err) ==
  IF err # NoErr THEN Resp(500, "internal_error") ELSE Resp(200, "")

\* UpdateTask, lines 197-212
UpdateTaskResponse(err) ==
  IF err = NoErr THEN Resp(200, "")
  ELSE IF ErrorsIs(err, RepoErrNotFound) THEN Resp(404, "not_found")
  ELSE IF ErrorsIs(err, RepoErrVersionConflict)
    THEN Resp(409, "version_conflict")
  ELSE Resp(500, "internal_error")

\* PatchTask, lines 247-262
PatchTaskResponse(err) ==
  IF err = NoErr THEN Resp(200, "")
  ELSE IF ErrorsIs(err, RepoErrNotFound) THEN Resp(404, "not_found")
  ELSE IF ErrorsIs(err, RepoErrVersionConflict)
    THEN Resp(409, "version_conflict")
  ELSE Resp(500, "internal_error")

\* DeleteTask, lines 274-280
DeleteTaskResponse(err) ==
  IF err # NoErr THEN Resp(500, "internal_error") ELSE Resp(204, "")

\* the response of the handler of an operation to what its service call returned
Respond(op, err) ==
  CASE op = "create" -> CreateTaskResponse(err)
    [] op = "get" -> GetTaskResponse(err)
    [] op = "list" -> ListTasksResponse(err)
    [] op = "update" -> UpdateTaskResponse(err)
    [] op = "patch" -> PatchTaskResponse(err)
    [] op = "delete" -> DeleteTaskResponse(err)

\* the call returns, and its handler answers
Finish(c, err, ret) ==
  [c EXCEPT !.pc = "done", !.err = err, !.ret = ret,
            !.resp = Respond(c.op, err)]

\* uuid.New: an identifier never handed out before (identifiers are opaque,
\* so the least unused one stands for any of them)
FreshIds == { t \in Ids \ used : \A u \in Ids \ used : t <= u }

\* an identifier uuid.New never returns: what a caller names when it names a
\* task that was never created
UnknownIds == {NumIds + 1}

\* identifiers a caller can name: those Create has returned, and an unknown one
KnownIds == used \cup UnknownIds

\* (mutant) a create that stores the requested status as it came
NewTaskWithoutDefault(req, now) ==
  [title |-> req.title, description |-> req.description,
   status |-> req.status,
   due_date |-> req.due_date, created_at |-> now, updated_at |-> now,
   version |-> 1]

\* taskService.Create + TaskRepo.Create
NewTask(req, now) ==
  [title |-> req.title, description |-> req.description,
   status |-> IF req.status # Nil THEN req.status ELSE StatusPending,
   due_date |-> req.due_date, created_at |-> now, updated_at |-> now,
   version |-> 1]

CreateFrom(w, c, req) ==
  /\ CanStart(w)
  /\ \E t \in FreshIds, now \in Advance(clock.app) :
       LET task == NewTask(req, now) IN
       /\ tasks' = Put(tasks, t, task)
       /\ used' = used \cup {t}
       /\ clock' = [clock EXCEPT !.app = now]
       /\ call' = [call EXCEPT ![w] = Finish([c EXCEPT !.id = t], NoErr, task)]
  /\ calls' = calls + 1
  /\ UNCHANGED nOk

Create(w, req) == CreateFrom(w, Begin(w, "create", 0, req), req)

\* (mutant) a get that stamps the row it reads
GetTouching(w, t) ==
  /\ CanStart(w)
  /\ call' = [call EXCEPT ![w] =
       IF Exists(t)
       THEN Finish(Begin(w, "get", t, NoReq), NoErr, tasks[t])
       ELSE Finish([Begin(w, "get", t, NoReq) EXCEPT !.absent = TRUE],
                   SvcErrNotFound, NoTask)]
  /\ tasks' = IF Exists(t)
              THEN [tasks EXCEPT ![t].updated_at = clock.db + 1] ELSE tasks
  /\ calls' = calls + 1
  /\ UNCHANGED <<used, clock, nOk>>

\* taskService.Get + TaskRepo.Get
Get(w, t) ==
  /\ CanStart(w)
  /\ call' = [call EXCEPT ![w] =
       IF Exists(t)
       THEN Finish(Begin(w, "get", t, NoReq), NoErr, tasks[t])
       ELSE Finish([Begin(w, "get", t, NoReq) EXCEPT !.absent = TRUE],
                   SvcErrNotFound, NoTask)]
  /\ calls' = calls + 1
  /\ UNCHANGED <<tasks, used, clock, nOk>>

\* TaskRepo.Delete, lines 251-255: no row affected is repo.ErrNotFound
RowsAffectedErr(tbl, t) == IF t \in DOMAIN tbl THEN NoErr ELSE RepoErrNotFound

\* (mutant) a delete that reports the absent row to its caller
DeleteStrict(err) == IF err = RepoErrNotFound THEN SvcErrNotFound ELSE err

\* taskService.Delete, lines 135-143: an absent row is not an error
DeleteOutcome(err) == IF err = RepoErrNotFound THEN NoErr ELSE err

\* taskService.Delete + TaskRepo.Delete
Delete(w, t) ==
  /\ CanStart(w)
  /\ tasks' = Remove(tasks, t)
  /\ call' = [call EXCEPT ![w] =
       Finish([Begin(w, "delete", t, NoReq) EXCEPT !.absent = ~Exists(t),
                                                   !.wrote = Exists(t)],
              DeleteOutcome(RowsAffectedErr(tasks, t)), NoTask)]
  /\ calls' = calls + 1
  /\ UNCHANGED <<used, clock, nOk>>

\* (mutant) an update that keeps the stored value of an omitted optional field
ApplyUpdateMerge(task, req) ==
  [task EXCEPT
     !.title = req.title,
     !.description = IF req.description # Nil THEN req.description ELSE @,
     !.status = req.status,
     !.due_date = IF req.due_date # NoTime THEN req.due_date ELSE @]

\* taskService.Update, lines 96-100: copy the request into the loaded task
ApplyUpdate(task, req) ==
  [task EXCEPT !.title = req.title, !.description = req.description,
               !.status = req.status, !.due_date = req.due_date]

\* (mutant) the service without its version comparison
VersionNeverDiffers(task, req) == FALSE

\* taskService.Update, line 92: task.Version != req.Version
VersionDiffers(task, req) == task.version # req.version

UpdateLoadFrom(w, c, t, req) ==
  /\ CanStart(w)
  /\ call' = [call EXCEPT ![w] =
       IF ~Exists(t)
       THEN Finish([c EXCEPT !.absent = TRUE], SvcErrNotFound, NoTask)
       ELSE IF VersionDiffers(tasks[t], req)
       THEN Finish([c EXCEPT !.loaded = tasks[t], !.mism = TRUE],
                   SvcErrVersionConflict, NoTask)
       ELSE [c EXCEPT !.pc = "update_save", !.loaded = tasks[t],
                      !.mism = tasks[t].version # req.version,
                      !.task = ApplyUpdate(tasks[t], req)]]
  /\ calls' = calls + 1
  /\ UNCHANGED <<tasks, used, clock, nOk>>

UpdateLoad(w, t, req) == UpdateLoadFrom(w, Begin(w, "update", t, req), t, req)

\* TaskRepo.Update, lines 205-221 and 238: the conditional UPDATE
UpdateSave(w) ==
  LET c == call[w] IN
  /\ c.pc = "update_save"
  /\ IF WhereIdVersion(tasks, c.id, c.task.version)
     THEN \E now \in Advance(clock.db) :
            LET row == UpdatedRow(tasks[c.id], c.task, now) IN
            /\ tasks' = Put(tasks, c.id, row)
            /\ clock' = [clock EXCEPT !.db = now]
            /\ call' = [call EXCEPT ![w] =
                 [c EXCEPT !.pc = "update_refresh", !.wrote = TRUE,
                           !.attempts = @ + 1,
                           !.mism = c.mism \/ tasks[c.id].version # c.req.version,
                           !.pre = tasks[c.id], !.post = row,
                           !.task = [c.task EXCEPT !.version = row.version]]]
     ELSE /\ call' = [call EXCEPT ![w] =
                 [c EXCEPT !.pc = "update_exists", !.attempts = @ + 1,
                           !.mism = c.mism \/ Exists(c.id),
                           !.absent = ~Exists(c.id)]]
          /\ UNCHANGED <<tasks, clock>>
  /\ UNCHANGED <<used, calls, nOk>>

\* TaskRepo.Update, lines 225-233: what a missed write is reported as
MissedWriteErr(exists) ==
  IF exists THEN RepoErrVersionConflict ELSE RepoErrNotFound

\* (mutant) a service that reports every missed write as a conflict
UpdateOutcomeConflictOnly(err) ==
  IF err \in {RepoErrVersionConflict, RepoErrNotFound}
  THEN SvcErrVersionConflict ELSE err

\* taskService.Update, lines 103-111: repository errors as service errors
UpdateOutcome(err) ==
  IF err = RepoErrVersionConflict THEN SvcErrVersionConflict
  ELSE IF err = RepoErrNotFound THEN SvcErrNotFound
  ELSE err

\* (mutant) a service that answers a missed write by writing again, with the
\* version it finds stored
UpdateExistsRetry(w) ==
  LET c == call[w] IN
  /\ c.pc = "update_exists"
  /\ call' = [call EXCEPT ![w] =
       IF Exists(c.id)
       THEN [c EXCEPT !.pc = "update_save",
                      !.task = [c.task EXCEPT !.version = tasks[c.id].version]]
       ELSE Finish([c EXCEPT !.absent = TRUE], SvcErrNotFound, NoTask)]
  /\ UNCHANGED <<tasks, used, clock, calls, nOk>>

\* TaskRepo.Update, lines 222-236 with TaskRepo.exists, and the mapping of
\* taskService.Update, lines 103-111
UpdateExists(w) ==
  LET c == call[w] IN
  /\ c.pc = "update_exists"
  /\ call' = [call EXCEPT ![w] =
       Finish([c EXCEPT !.absent = ~Exists(c.id)],
              UpdateOutcome(MissedWriteErr(Exists(c.id))), NoTask)]
  /\ UNCHANGED <<tasks, used, clock, calls, nOk>>

\* taskService.Update, line 114: return s.repository.Get(ctx, id)
UpdateRefresh(w) ==
  LET c == call[w] IN
  /\ c.pc = "update_refresh"
  /\ IF Exists(c.id)
     THEN /\ call' = [call EXCEPT ![w] = Finish(c, NoErr, tasks[c.id])]
          /\ nOk' = [nOk EXCEPT ![c.id] = @ + 1]
     ELSE /\ call' = [call EXCEPT ![w] =
                 Finish([c EXCEPT !.absent = TRUE], RepoErrNotFound, NoTask)]
          /\ UNCHANGED nOk
  /\ UNCHANGED <<tasks, used, clock, calls>>

\* (mutant) a patch that copies description and due_date even when absent
ApplyPatchClearing(task, patch) ==
  [task EXCEPT
     !.title = IF patch.title # Nil THEN patch.title ELSE @,
     !.description = patch.description,
     !.status = IF patch.status # Nil THEN patch.status ELSE @,
     !.due_date = patch.due_date]

\* TaskRepo.Patch, lines 271-283
ApplyPatch(task, patch) ==
  [task EXCEPT
     !.title = IF patch.title # Nil THEN patch.title ELSE @,
     !.description = IF patch.description # Nil THEN patch.description ELSE @,
     !.status = IF patch.status # Nil THEN patch.status ELSE @,
     !.due_date = IF patch.due_date # NoTime THEN patch.due_date ELSE @]

\* TaskRepo.Patch, line 267: patch.Version != nil && *patch.Version != task.Version
PatchVersionDiffers(task, patch) ==
  patch.version # NoVersion /\ patch.version # task.version

\* TaskRepo.Patch, lines 260-283, with the error mapping of taskService.Patch
PatchLoadFrom(w, c, t, req) ==
  /\ CanStart(w)
  /\ call' = [call EXCEPT ![w] =
       IF ~Exists(t)
       THEN Finish([c EXCEPT !.absent = TRUE], SvcErrNotFound, NoTask)
       ELSE IF PatchVersionDiffers(tasks[t], req)
       THEN Finish([c EXCEPT !.loaded = tasks[t], !.mism = TRUE],
                   SvcErrVersionConflict, NoTask)
       ELSE [c EXCEPT !.pc = "patch_save", !.loaded = tasks[t],
                      !.mism = req.version # NoVersion /\ req.version # tasks[t].version,
                      !.task = ApplyPatch(tasks[t], req)]]
  /\ calls' = calls + 1
  /\ UNCHANGED <<tasks, used, clock, nOk>>

PatchLoad(w, t, req) == PatchLoadFrom(w, Begin(w, "patch", t, req), t, req)

\* (mutant) a patch that scans the new version only
ScanVersionOnly(task, row) == [task EXCEPT !.version = row.version]

\* TaskRepo.Patch, lines 286-300: RETURNING version, updated_at scanned into
\* the local task
ScanReturning(task, row) ==
  [task EXCEPT !.version = row.version, !.updated_at = row.updated_at]

\* TaskRepo.Patch, lines 285-309, with the error mapping of taskService.Patch
PatchSave(w) ==
  LET c == call[w] IN
  /\ c.pc = "patch_save"
  /\ IF WhereIdVersion(tasks, c.id, c.task.version)
     THEN \E now \in Advance(clock.db) :
            LET row == UpdatedRow(tasks[c.id], c.task, now)
                task == ScanReturning(c.task, row) IN
            /\ tasks' = Put(tasks, c.id, row)
            /\ clock' = [clock EXCEPT !.db = now]
            /\ call' = [call EXCEPT ![w] =
                 Finish([c EXCEPT !.wrote = TRUE, !.pre = tasks[c.id],
                                  !.attempts = @ + 1,
                                  !.mism = tasks[c.id].version # c.loaded.version,
                                  !.post = row, !.task = task],
                        NoErr, task)]
            /\ nOk' = [nOk EXCEPT ![c.id] = @ + 1]
     ELSE /\ call' = [call EXCEPT ![w] =
                 Finish([c EXCEPT !.mism = Exists(c.id), !.attempts = @ + 1,
                                  !.absent = ~Exists(c.id)],
                        SvcErrVersionConflict, NoTask)]
          /\ UNCHANGED <<tasks, clock, nOk>>
  /\ UNCHANGED <<used, calls>>

\* ---------------------------------------------------------------- system
\* The service starts on a database that is empty or already holds a task
\* stored by an earlier run.
InitTables ==
  {<<>>} \cup { [t \in {1} |-> NewTask(b, 1)] : b \in CreateBodies }

Init ==
  /\ tasks \in InitTables
  /\ used = DOMAIN tasks
  /\ clock = [app |-> 1, db |-> 1]
  /\ call = [w \in Workers |-> Idle]
  /\ calls = 0
  /\ nOk = [t \in Ids |-> 0]

\* Get and Delete name an identifier Create has returned or an unknown one;
\* Update and Patch name one that Create has returned (a deleted one is as
\* unknown to the store as a made-up one).
Next ==
  \E w \in Workers :
    \/ \E req \in CreateBodies : Create(w, req)
    \/ \E t \in KnownIds : Get(w, t)
    \/ \E t \in KnownIds : Delete(w, t)
    \/ \E t \in used, req \in UpdateReqs : UpdateLoad(w, t, req)
    \/ UpdateSave(w)
    \/ UpdateExists(w)
    \/ UpdateRefresh(w)
    \/ \E t \in used, req \in PatchReqs : PatchLoad(w, t, req)
    \/ PatchSave(w)

Spec == Init /\ [][Next]_vars

\* ---------------------------------------------------------------- write race
\* A task stored at some version, and every worker issuing one write (a full
\* update or a patch carrying an expected version) that names that version.
RECURSIVE RaceRow(_)
RaceRow(v) ==
  IF v <= 1
  THEN NewTask(Body("t1", "d1", StatusInProgress, 1), 1)
  ELSE UpdatedRow(RaceRow(v - 1), RaceRow(v - 1), 1)

RaceIds == {1}

RaceInit ==
  /\ \E v \in 1..MaxRaceVersion :
       /\ tasks = [t \in RaceIds |-> RaceRow(v)]
       /\ nOk = [t \in Ids |-> IF t \in RaceIds THEN v - 1 ELSE 0]
  /\ used = RaceIds
  /\ clock = [app |-> 1, db |-> 1]
  /\ call = [w \in Workers |-> Idle]
  /\ calls = 0

Started == { w \in Workers : call[w].op # "none" }

\* the version every racing writer submits: the one stored when the race began
RaceExpected(t) ==
  IF Started = {} THEN tasks[t].version
  ELSE call[CHOOSE w \in Started : TRUE].req.version

RaceNext ==
  \E w \in Workers :
    \/ /\ call[w].pc = "idle"
       /\ \E t \in RaceIds, b \in UpdateBodies :
            UpdateLoad(w, t, WithVersion(b, RaceExpected(t)))
    \/ /\ call[w].pc = "idle"
       /\ \E t \in RaceIds, b \in PatchBodies :
            PatchLoad(w, t, WithVersion(b, RaceExpected(t)))
    \/ UpdateSave(w)
    \/ UpdateExists(w)
    \/ UpdateRefresh(w)
    \/ PatchSave(w)

RaceSpec == RaceInit /\ [][RaceNext]_vars

\* ---------------------------------------------------------------- properties
Done(w) == call[w].pc = "done"

Ok(w) == Done(w) /\ call[w].err = NoErr

IsWrite(w) == call[w].op \in {"update", "patch"}

\* C1 (conflict exclusivity): when all workers race a write with the same
\* expected version V against a task stored at V, at most one write is ever
\* applied, every finished loser reports VersionConflict, and once all have
\* returned exactly one of them succeeded, its write having moved V to V+1.
ConflictExclusivity ==
  /\ Cardinality({ w \in Workers : call[w].wrote }) <= 1
  /\ \A w \in Workers :
       /\ Done(w) /\ ~Ok(w) => call[w].err = SvcErrVersionConflict /\ ~call[w].wrote
       /\ call[w].wrote =>
            /\ call[w].pre.version = call[w].req.version
            /\ call[w].post.version = call[w].req.version + 1
  /\ (\A w \in Workers : Done(w)) =>
       /\ Cardinality({ w \in Workers : Ok(w) }) = 1
       /\ \A t \in RaceIds : \A w \in Workers :
            tasks[t].version = call[w].req.version + 1

\* an update won the race and a patch that had read the same version lost it
ConflictExclusivityWitness ==
  \E w1, w2 \in Workers :
    /\ w1 # w2
    /\ \A w \in Workers : Done(w)
    /\ call[w1].op = "update" /\ Ok(w1)
    /\ call[w2].op = "patch" /\ call[w2].err = SvcErrVersionConflict
    /\ call[w2].loaded.version = call[w2].req.version
    /\ call[w1].req.version = 2

InFlight(t) == \E w \in Workers : call[w].id = t /\ call[w].pc \notin {"idle", "done"}

SameFields(a, b) ==
  /\ a.title = b.title
  /\ a.description = b.description
  /\ a.status = b.status
  /\ a.due_date = b.due_date

\* C2 (version monotonicity): a task is created at version 1; when no write
\* on an id is in flight its stored version is 1 + the number of update/patch
\* calls on it that succeeded; and a call that failed has not changed the
\* version, i.e. none of its writes was applied.
VersionMonotonicity ==
  /\ \A w \in Workers :
       Done(w) /\ call[w].op = "create" => call[w].ret.version = 1
  /\ \A t \in DOMAIN tasks :
       ~InFlight(t) => tasks[t].version = 1 + nOk[t]
  /\ \A w \in Workers :
       Done(w) /\ IsWrite(w) /\ call[w].err # NoErr => ~call[w].wrote

\* C3 (no lost update): a write of an update or patch is applied only to the
\* very row the call read: the version stored right before the write is the
\* version the call observed (and the caller's expected version when it gave
\* one), so nothing committed in between is overwritten; a call whose read is
\* stale at write time is rejected.
NoLostUpdate ==
  \A w \in Workers :
    /\ IsWrite(w) /\ call[w].wrote =>
         /\ call[w].pre.version = call[w].loaded.version
         /\ call[w].pre = call[w].loaded
         /\ call[w].req.version # NoVersion =>
              call[w].pre.version = call[w].req.version
    /\ IsWrite(w) /\ call[w].mism => ~call[w].wrote

\* two calls read the same version; one wrote, the other was rejected
NoLostUpdateWitness ==
  \E w1, w2 \in Workers :
    /\ w1 # w2 /\ call[w1].id = call[w2].id
    /\ IsWrite(w1) /\ call[w1].wrote
    /\ call[w2].op = "update" /\ Done(w2) /\ ~call[w2].wrote
    /\ call[w2].loaded = call[w1].pre
    /\ call[w2].req.version = call[w2].loaded.version

\* C4 (conflict leaves the row alone): an Update that met a stored row whose
\* version differs from its expected version applies no write and, the row
\* still being there when it decides, returns VersionConflict (NotFound when
\* the row has been deleted meanwhile); the step on which an Update returns
\* VersionConflict leaves the whole table unchanged.
UpdateConflictLeavesRow ==
  /\ [](\A w \in Workers :
         call[w].op = "update" /\ call[w].mism =>
           /\ ~call[w].wrote
           /\ Done(w) =>
                call[w].err = IF call[w].absent THEN SvcErrNotFound
                              ELSE SvcErrVersionConflict)
  /\ [][\A w \in Workers :
         ( /\ call'[w] # call[w]
           /\ call'[w].op = "update"
           /\ call'[w].err = SvcErrVersionConflict ) => tasks' = tasks]_vars

\* on a fresh task (version 1) an update with expected version 1 succeeded;
\* the same update again with expected version 1: VersionConflict, and the
\* version is still 2
UpdateConflictLeavesRowWitness ==
  \E w \in Workers :
    /\ call[w].op = "update" /\ Done(w)
    /\ call[w].err = SvcErrVersionConflict
    /\ call[w].req.version = 1
    /\ call[w].loaded.version = 2
    /\ call[w].id \in DOMAIN tasks
    /\ tasks[call[w].id].version = 2
    /\ nOk[call[w].id] = 1
    /\ SameFields(tasks[call[w].id], call[w].req)

\* C5 (update returns its own write): a successful Update returns the fields
\* of its request and version expectedVersion + 1.
UpdateReturnsOwnWrite ==
  \A w \in Workers :
    call[w].op = "update" /\ Ok(w) =>
      /\ SameFields(call[w].ret, call[w].req)
      /\ call[w].ret.version = call[w].req.version + 1

\* C6 (unconditional patch): a Patch without an expected version, on a task
\* that exists when it reads and when it writes, never fails with
\* VersionConflict.
PatchWithoutVersionNeverConflicts ==
  \A w \in Workers :
    ( /\ call[w].op = "patch" /\ Done(w)
      /\ call[w].req.version = NoVersion
      /\ ~call[w].absent ) => call[w].err # SvcErrVersionConflict

\* C7 (absent row vs version mismatch): a Patch that finds no row when it is
\* applied fails with NotFound, and it fails with VersionConflict only when
\* the row exists with a version other than the expected one.
PatchDistinguishesAbsent ==
  \A w \in Workers :
    call[w].op = "patch" /\ Done(w) =>
      /\ call[w].absent => call[w].err = SvcErrNotFound
      /\ call[w].err = SvcErrVersionConflict => call[w].mism

Present(req) ==
  [title |-> req.title # Nil, description |-> req.description # Nil,
   status |-> req.status # Nil, due_date |-> req.due_date # NoTime]

\* C8 (patch field isolation): the write of a Patch sets exactly the fields
\* present in the request and leaves each absent field as it was stored right
\* before the write; the version goes up by exactly 1.
PatchFieldIsolation ==
  \A w \in Workers :
    call[w].op = "patch" /\ call[w].wrote =>
      LET r == call[w].req  pre == call[w].pre  post == call[w].post IN
      /\ post.title = IF Present(r).title THEN r.title ELSE pre.title
      /\ post.description =
           IF Present(r).description THEN r.description ELSE pre.description
      /\ post.status = IF Present(r).status THEN r.status ELSE pre.status
      /\ post.due_date = IF Present(r).due_date THEN r.due_date ELSE pre.due_date
      /\ post.version = pre.version + 1
      /\ post.created_at = pre.created_at

\* a patch of the status alone, applied to a row whose other fields are set
PatchFieldIsolationWitness ==
  \E w \in Workers :
    /\ call[w].op = "patch" /\ Ok(w) /\ call[w].wrote
    /\ Present(call[w].req) =
         [title |-> FALSE, description |-> FALSE, status |-> TRUE, due_date |-> FALSE]
    /\ call[w].pre.description # Nil /\ call[w].pre.due_date # NoTime
    /\ call[w].post.status # call[w].pre.status
    /\ call[w].post.description = call[w].pre.description

UpdateIsReplacement ==
  \A w \in Workers :
    call[w].op = "update" /\ call[w].wrote =>
      /\ SameFields(call[w].post, call[w].req)
      /\ call[w].post.version = call[w].pre.version + 1
      /\ call[w].post.created_at = call[w].pre.created_at

\* an update that omits description and due_date cleared both in the row
UpdateIsReplacementWitness ==
  \E w \in Workers :
    /\ call[w].op = "update" /\ Ok(w)
    /\ call[w].req.description = Nil /\ call[w].req.due_date = NoTime
    /\ call[w].pre.description # Nil /\ call[w].pre.due_date # NoTime
    /\ call[w].post.description = Nil /\ call[w].post.due_date = NoTime

\* C11 (idempotent delete): a Delete reports success whether or not the id has
\* a row; its step removes the row of that id and nothing else, so a Delete of
\* an id without a row (never created, or deleted before) leaves the table as
\* it is, and the table after a second delete equals the table after the first.
DeleteIsIdempotent ==
  /\ [](\A w \in Workers : call[w].op = "delete" => Ok(w))
  /\ [][\A w \in Workers :
         call'[w] # call[w] /\ call'[w].op = "delete" =>
           LET t == call'[w].id IN
           /\ t \notin DOMAIN tasks'
           /\ \A u \in DOMAIN tasks \ {t} : u \in DOMAIN tasks' /\ tasks'[u] = tasks[u]
           /\ DOMAIN tasks' \subseteq DOMAIN tasks
           /\ t \notin DOMAIN tasks => tasks' = tasks /\ call'[w].absent]_vars

\* the same id deleted twice: the first call removed the row, the second found
\* none, both reported success
DeleteIsIdempotentWitness ==
  \E w1, w2 \in Workers :
    /\ w1 # w2 /\ call[w1].id = call[w2].id
    /\ call[w1].op = "delete" /\ Ok(w1) /\ call[w1].wrote
    /\ call[w2].op = "delete" /\ Ok(w2) /\ call[w2].absent
    /\ call[w1].id \in used

\* the ids whose row a Delete has removed: handed out by Create, no row now
Deleted == used \ DOMAIN tasks

\* C12 (deletion is permanent): a row exists only for an id Create has handed
\* out; the step of a Delete leaves no row for its id; no step of any call, a
\* write of an Update or Patch that read the row before the delete included,
\* gives a deleted id a row again; and a Get of an id without a row returns
\* NotFound.
DeletionIsPermanent ==
  /\ [](DOMAIN tasks \subseteq used)
  /\ [][/\ used \subseteq used'
        /\ \A t \in Deleted : t \notin DOMAIN tasks'
        /\ \A t \in DOMAIN tasks' \ DOMAIN tasks : t \notin used
        /\ \A w \in Workers :
             call'[w] # call[w] /\ call'[w].op = "delete" =>
               call'[w].id \notin DOMAIN tasks'
        /\ \A w \in Workers :
             ( /\ call'[w] # call[w] /\ call'[w].op = "get"
               /\ call'[w].id \notin DOMAIN tasks ) =>
                 call'[w].err = SvcErrNotFound /\ call'[w].ret = NoTask]_vars

\* a Patch read the row, a Delete removed it, the Patch then wrote: nothing was
\* applied and the id has no row
DeletionIsPermanentWitness ==
  \E w1, w2 \in Workers :
    /\ w1 # w2 /\ call[w1].id = call[w2].id
    /\ call[w1].op = "delete" /\ Ok(w1) /\ call[w1].wrote
    /\ call[w2].op = "patch" /\ Done(w2)
    /\ call[w2].loaded # NoTask /\ call[w2].absent /\ ~call[w2].wrote
    /\ call[w1].id \in Deleted

\* C13 (deletion race): an Update whose conditional write finds the row
\* deleted applies nothing, finds no row in its existence check either and
\* returns NotFound, not VersionConflict and not success; and whenever a Delete
\* of an id has returned, whatever a concurrent Update did and in whatever
\* order, the id has no row.
DeletionRace ==
  \A w \in Workers :
    /\ call[w].op = "update" /\ call[w].absent /\ ~call[w].wrote =>
         /\ call[w].id \notin DOMAIN tasks
         /\ call[w].pc \in {"update_exists", "done"}
         /\ Done(w) => call[w].err = SvcErrNotFound
    /\ call[w].op = "delete" /\ Done(w) => call[w].id \notin DOMAIN tasks

\* an Update read the row at its expected version, a Delete removed the row,
\* the Update's write then missed and the Update returned NotFound
DeletionRaceWitness ==
  \E w1, w2 \in Workers :
    /\ w1 # w2 /\ call[w1].id = call[w2].id
    /\ call[w1].op = "delete" /\ Ok(w1) /\ call[w1].wrote
    /\ call[w2].op = "update" /\ Done(w2)
    /\ call[w2].loaded.version = call[w2].req.version
    /\ call[w2].err = SvcErrNotFound /\ ~call[w2].wrote
    /\ call[w2].id \notin DOMAIN tasks

\* C14 (create): the step of a Create succeeds, takes an id that no task has
\* and that was never handed out, stores under it exactly the task it returns,
\* that task having version 1, created_at = updated_at, the requested status
\* or Pending when none was given, and the title, description and due_date of
\* the request; every other row is as before.
CreateStoresTask ==
  [][\A w \in Workers :
       call'[w] # call[w] /\ call'[w].op = "create" =>
         LET t == call'[w].id
             r == call'[w].req
             ret == call'[w].ret IN
         /\ call'[w].pc = "done" /\ call'[w].err = NoErr
         /\ t \notin DOMAIN tasks /\ t \notin used
         /\ DOMAIN tasks' = DOMAIN tasks \cup {t}
         /\ tasks'[t] = ret
         /\ ret.version = 1
         /\ ret.created_at = ret.updated_at
         /\ ret.status = IF r.status # Nil THEN r.status ELSE StatusPending
         /\ ret.status \in Statuses
         /\ ret.title = r.title
         /\ ret.description = r.description
         /\ ret.due_date = r.due_date
         /\ \A u \in DOMAIN tasks : tasks'[u] = tasks[u]]_vars

\* a Create without status, description and due_date stored a Pending task
\* next to another task
CreateStoresTaskWitness ==
  \E w \in Workers :
    /\ call[w].op = "create" /\ Ok(w)
    /\ call[w].req.status = Nil /\ call[w].ret.status = StatusPending
    /\ call[w].id \in DOMAIN tasks /\ tasks[call[w].id] = call[w].ret
    /\ Cardinality(DOMAIN tasks) = 2

\* C15 (id and created_at are fixed): no step changes the created_at of a row
\* that is there before and after it; a step of an Update or Patch changes no
\* row but the one of the id it was called with and neither adds nor removes
\* a row (the row stays under its id); and a task returned by Get, Update or
\* Patch carries the created_at stored for that id.
IdAndCreatedAtFixed ==
  /\ [][/\ \A t \in DOMAIN tasks \cap DOMAIN tasks' :
             tasks'[t].created_at = tasks[t].created_at
        /\ \A w \in Workers :
             call'[w] # call[w] /\ call'[w].op \in {"update", "patch", "get"} =>
               /\ DOMAIN tasks' = DOMAIN tasks
               /\ \A u \in DOMAIN tasks \ {call'[w].id} : tasks'[u] = tasks[u]
               /\ call'[w].pc = "done" /\ call'[w].err = NoErr =>
                    /\ call'[w].id \in DOMAIN tasks
                    /\ call'[w].ret.created_at = tasks[call'[w].id].created_at]_vars

\* an Update rewrote every field of a task at a later time: updated_at moved,
\* created_at did not
IdAndCreatedAtFixedWitness ==
  \E w \in Workers :
    /\ call[w].op = "update" /\ Ok(w) /\ call[w].wrote
    /\ ~SameFields(call[w].post, call[w].pre)
    /\ call[w].post.updated_at # call[w].pre.updated_at
    /\ call[w].post.created_at = call[w].pre.created_at
    /\ call[w].ret.created_at = call[w].pre.created_at

\* C16 (updated_at is monotone): a task is created with updated_at =
\* created_at, and no step sets the updated_at of a stored row to an earlier
\* value than it had.
UpdatedAtMonotone ==
  [][/\ \A t \in DOMAIN tasks' \ DOMAIN tasks :
          tasks'[t].updated_at = tasks'[t].created_at
     /\ \A t \in DOMAIN tasks \cap DOMAIN tasks' :
          tasks'[t].updated_at >= tasks[t].updated_at]_vars

\* ---------------------------------------------------------------- listing
\* (mutant) a query without its status predicate
MatchesAny(row, status) == TRUE

\* WHERE ($1::task_status IS NULL OR status = $1)
Matches(row, status) == status = Nil \/ row.status = status

Matching(tbl, status) == { t \in DOMAIN tbl : Matches(tbl[t], status) }

\* CASE WHEN $2 = token THEN column END: NULL when the token is another one
CaseWhen(sort, token, column) == IF sort = token THEN column ELSE NoTime

\* ASC puts NULL last, DESC puts NULL first
Asc(x, y) ==
  \/ x # NoTime /\ y = NoTime
  \/ x # NoTime /\ y # NoTime /\ x < y

Desc(x, y) ==
  \/ x = NoTime /\ y # NoTime
  \/ x # NoTime /\ y # NoTime /\ x > y

\* the five ORDER BY expressions for rows a and b, in order
OrderKeys(a, b, sort) ==
  << [desc |-> FALSE, x |-> CaseWhen(sort, "created_at", a.created_at),
                      y |-> CaseWhen(sort, "created_at", b.created_at)],
     [desc |-> TRUE,  x |-> CaseWhen(sort, "-created_at", a.created_at),
                      y |-> CaseWhen(sort, "-created_at", b.created_at)],
     [desc |-> FALSE, x |-> CaseWhen(sort, "due_date", a.due_date),
                      y |-> CaseWhen(sort, "due_date", b.due_date)],
     [desc |-> TRUE,  x |-> CaseWhen(sort, "-due_date", a.due_date),
                      y |-> CaseWhen(sort, "-due_date", b.due_date)],
     [desc |-> TRUE,  x |-> a.created_at, y |-> b.created_at] >>

KeyBefore(k) == IF k.desc THEN Desc(k.x, k.y) ELSE Asc(k.x, k.y)

KeyAfter(k) == IF k.desc THEN Desc(k.y, k.x) ELSE Asc(k.y, k.x)

\* the first expression that tells the two rows apart decides
RECURSIVE OrderedBefore(_, _)
OrderedBefore(keys, i) ==
  IF i > Len(keys) THEN FALSE
  ELSE IF KeyBefore(keys[i]) THEN TRUE
  ELSE IF KeyAfter(keys[i]) THEN FALSE
  ELSE OrderedBefore(keys, i + 1)

\* row a must come before row b
RowBefore(a, b, sort) == OrderedBefore(OrderKeys(a, b, sort), 1)

\* The orders in which the SELECT can deliver the rows S: every arrangement
\* that respects ORDER BY.  Rows the ORDER BY does not tell apart come in an
\* order the statement does not fix; it may differ from one query to the next.
RECURSIVE Orderings(_, _, _)
Orderings(tbl, S, sort) ==
  IF S = {} THEN { <<>> }
  ELSE LET first == { t \in S : \A u \in S : ~RowBefore(tbl[u], tbl[t], sort) }
       IN  UNION { { <<t>> \o p : p \in Orderings(tbl, S \ {t}, sort) } :
                   t \in first }

\* (mutant) a page query without its LIMIT
WindowNoLimit(seq, limit, offset) ==
  [i \in 1..(IF Len(seq) < offset THEN 0 ELSE Len(seq) - offset) |->
     seq[offset + i]]

\* LIMIT $3 OFFSET $4
Window(seq, limit, offset) ==
  LET n == IF Len(seq) - offset < limit THEN Len(seq) - offset ELSE limit
  IN  [i \in 1..(IF n < 0 THEN 0 ELSE n) |-> seq[offset + i]]

\* math.Ceil of the quotient of two float64 holding the integers n and d
\* (the conversions and the division are exact for counts of this size)
CeilOfQuotient(n, d) == IF n % d = 0 THEN n \div d ELSE (n \div d) + 1

\* (mutant) integer division in place of the ceiling
TotalPagesTruncated(total, size) == total \div size

\* TaskRepo.List, line 118
TotalPages(total, size) == CeilOfQuotient(total, size)

\* pagination.CalculateTotalPages
CalculateTotalPages(totalItems, pageSize) == CeilOfQuotient(totalItems, pageSize)

\* (mutant) meta that reports the last page for a request beyond it
PageMetaClamped(filter, total) ==
  LET pages == CeilOfQuotient(total, filter.size) IN
  [page |-> IF filter.page > pages THEN pages ELSE filter.page,
   pageSize |-> filter.size, totalItems |-> total, totalPages |-> pages]

\* TaskRepo.List, lines 124-129 and 194-199
PageMeta(filter, total) ==
  [page |-> filter.page, pageSize |-> filter.size, totalItems |-> total,
   totalPages |-> TotalPages(total, filter.size)]

\* TaskRepo.List, line 147
Offset(filter) == WrapInt((filter.page - 1) * filter.size)

\* the scanned domain.Task of a row
Item(tbl, t) == [id |-> t, task |-> tbl[t]]

ReturnList(c, items) ==
  [c EXCEPT !.pc = "done", !.err = NoErr, !.resp = Respond(c.op, NoErr),
            !.list = [items |-> items, meta |-> PageMeta(c.filter, c.total)]]

\* TaskRepo.List, lines 104-131: the count query, and the empty result
ListCountFrom(w, c0, filter) ==
  /\ CanStart(w)
  /\ LET total == Cardinality(Matching(tasks, filter.status))
         c == [c0 EXCEPT !.filter = filter, !.total = total, !.seen = tasks] IN
     call' = [call EXCEPT ![w] =
       IF total = 0 THEN ReturnList(c, <<>>)
       ELSE [c EXCEPT !.pc = "list_select"]]
  /\ calls' = calls + 1
  /\ UNCHANGED <<tasks, used, clock, nOk>>

ListCount(w, filter) == ListCountFrom(w, Begin(w, "list", 0, NoReq), filter)

\* TaskRepo.List, lines 133-200: the page query
ListSelect(w) ==
  LET c == call[w] IN
  /\ c.pc = "list_select"
  /\ \E p \in Orderings(tasks, Matching(tasks, c.filter.status), c.filter.sort) :
       LET page == Window(p, c.filter.size, Offset(c.filter)) IN
       call' = [call EXCEPT ![w] =
         ReturnList(c, [i \in DOMAIN page |-> Item(tasks, page[i])])]
  /\ UNCHANGED <<tasks, used, clock, calls, nOk>>

\* a row stored by an earlier run of the service
StoredRow(status, due, at) ==
  [title |-> "t1", description |-> Nil, status |-> status, due_date |-> due,
   created_at |-> at, updated_at |-> at, version |-> 1]

\* the table holding the given rows, under identifiers handed out earlier
TableOf(rows) ==
  [t \in { NumIds + 1 + i : i \in DOMAIN rows } |-> rows[t - NumIds - 1]]

\* The tables the listing starts from: none; three tasks of which two cannot
\* be told apart by any sort (same due_date, same created_at); three tasks
\* with statuses Pending, InProgress, InProgress created at distinct times;
\* five tasks of one status.
ListTables ==
  { TableOf(<<>>),
    TableOf(<< StoredRow(StatusInProgress, NoTime, 1),
               StoredRow(StatusInProgress, NoTime, 1),
               StoredRow(StatusPending, 2, 1) >>),
    TableOf(<< StoredRow(StatusPending, 2, -2),
               StoredRow(StatusInProgress, NoTime, -1),
               StoredRow(StatusInProgress, 1, 1) >>),
    TableOf(<< StoredRow(StatusInProgress, NoTime, -4),
               StoredRow(StatusInProgress, NoTime, -3),
               StoredRow(StatusInProgress, 2, -2),
               StoredRow(StatusInProgress, NoTime, -1),
               StoredRow(StatusInProgress, 1, 1) >>) }

ListInit ==
  /\ tasks \in ListTables
  /\ used = DOMAIN tasks
  /\ clock = [app |-> 1, db |-> 1]
  /\ call = [w \in Workers |-> Idle]
  /\ calls = 0
  /\ nOk = [t \in Ids \cup DOMAIN tasks |-> 0]

\* a caller paging through one listing keeps status, sort and page size
SameListing(filter) ==
  \A w \in Workers :
    call[w].op = "list" =>
      /\ call[w].filter.status = filter.status
      /\ call[w].filter.sort = filter.sort
      /\ call[w].filter.size = filter.size

\* the task the writers name: the one with the oldest identifier
ListTargets == { t \in used : \A u \in used : t <= u }

\* the tasks the writers insert: with a status the listings filter on
ListCreates == { b \in CreateBodies : b.status = StatusInProgress }

\* List calls next to calls that insert and remove rows
ListNext ==
  \E w \in Workers :
    \/ \E filter \in ListFilters : SameListing(filter) /\ ListCount(w, filter)
    \/ ListSelect(w)
    \/ \E req \in ListCreates : Create(w, req)
    \/ \E t \in ListTargets : Delete(w, t)

ListSpec == ListInit /\ [][ListNext]_vars

\* ---------------------------------------------------------------- page count
\* Listings of tables of every size up to MaxTotal with every page size up to
\* MaxSize: the page arithmetic of TaskRepo.List over a range of counts.
RECURSIVE StoredRows(_)
StoredRows(n) ==
  IF n = 0 THEN <<>>
  ELSE Append(StoredRows(n - 1), StoredRow(StatusInProgress, NoTime, 1 - n))

PagesFilters ==
  [status : {Nil}, page : {1}, size : 1..MaxSize, sort : {"-created_at"}]

PagesInit ==
  /\ \E n \in 0..MaxTotal : tasks = TableOf(StoredRows(n))
  /\ used = DOMAIN tasks
  /\ clock = [app |-> 1, db |-> 1]
  /\ call = [w \in Workers |-> Idle]
  /\ calls = 0
  /\ nOk = [t \in Ids \cup DOMAIN tasks |-> 0]

PagesNext ==
  \E w \in Workers :
    \/ \E filter \in PagesFilters : SameListing(filter) /\ ListCount(w, filter)
    \/ ListSelect(w)

PagesSpec == PagesInit /\ [][PagesNext]_vars

\* ---------------------------------------------------------------- list properties
ListCalls == { w \in Workers : call[w].op = "list" }

ListDone(w) == call[w].op = "list" /\ Done(w)

Items(w) == call[w].list.items

ItemIds(w) == { Items(w)[i].id : i \in DOMAIN Items(w) }

\* nothing but List calls has run: the table is the one the service started on
OnlyListsRan ==
  /\ \A w \in Workers : call[w].op \in {"none", "list"}
  /\ calls = Cardinality(ListCalls)

\* C17 (pagination completeness): when no write has run and the finished List
\* calls of one listing (same status, sort and page size) have fetched each of
\* the pages 1..totalPages once, their items are exactly the matching tasks:
\* as many as totalItems, none twice, none missing.
PaginationCompleteness ==
  ( /\ OnlyListsRan
    /\ ListCalls # {}
    /\ \A w \in ListCalls : Done(w)
    /\ \A w1, w2 \in ListCalls :
         w1 # w2 => call[w1].filter.page # call[w2].filter.page
    /\ \A w \in ListCalls :
         { call[v].filter.page : v \in ListCalls } =
           1..call[w].list.meta.totalPages ) =>
      LET all == UNION { ItemIds(w) : w \in ListCalls } IN
      /\ \A w \in ListCalls :
           /\ Cardinality(ItemIds(w)) = Len(Items(w))
           /\ Cardinality(all) = call[w].list.meta.totalItems
           /\ all = Matching(tasks, call[w].filter.status)
      /\ \A w1, w2 \in ListCalls : w1 # w2 => ItemIds(w1) \cap ItemIds(w2) = {}

\* the column the sort token names
SortKey(row, sort) ==
  IF sort \in {"created_at", "-created_at"} THEN row.created_at ELSE row.due_date

Descending(sort) == sort \in {"-created_at", "-due_date"}

\* the place of task t in the items of w
Place(w, t) == CHOOSE i \in DOMAIN Items(w) : Items(w)[i].id = t

\* C18 (stable order): in every returned page two rows that both have a sort
\* key come in the requested direction of that key, and rows with equal or
\* both-null keys come newest first; and two tasks that are in the items of
\* two List calls of one listing are in the same relative order in both,
\* whatever was inserted or removed between the calls.
ListOrderIsStable ==
  /\ \A w \in Workers : ListDone(w) =>
       \A i, j \in DOMAIN Items(w) : i < j =>
         LET a == Items(w)[i].task
             b == Items(w)[j].task
             ka == SortKey(a, call[w].filter.sort)
             kb == SortKey(b, call[w].filter.sort) IN
         /\ ka # NoTime /\ kb # NoTime =>
              IF Descending(call[w].filter.sort) THEN ka >= kb ELSE ka <= kb
         /\ ka = kb => a.created_at >= b.created_at
  /\ \A w1, w2 \in Workers : ListDone(w1) /\ ListDone(w2) =>
       \A x, y \in ItemIds(w1) \cap ItemIds(w2) :
         Place(w1, x) < Place(w1, y) <=> Place(w2, x) < Place(w2, y)

CfgDefaultSize == 20
CfgMaxSize == 100

\* pagination.DefaultParams as ListTasks fills it
HandlerDefaults ==
  [DefaultPage |-> 1, DefaultSize |-> CfgDefaultSize, MaxSize |-> CfgMaxSize]

DigitChars == <<"0", "1", "2", "3", "4", "5", "6", "7", "8", "9">>

IsDigit(ch) == \E i \in 1..10 : DigitChars[i] = ch

DigitValue(ch) == (CHOOSE i \in 1..10 : DigitChars[i] = ch) - 1

RECURSIVE DigitsValue(_)
DigitsValue(s) ==
  IF s = <<>> THEN 0
  ELSE 10 * DigitsValue(SubSeq(s, 1, Len(s) - 1)) + DigitValue(s[Len(s)])

\* strconv.Atoi: an optional sign, then decimal digits only; a value outside
\* the int is a range error
Atoi(s) ==
  LET signed == s # <<>> /\ s[1] \in {"+", "-"}
      digits == IF signed THEN Tail(s) ELSE s
      n == IF signed /\ s[1] = "-" THEN 0 - DigitsValue(digits)
           ELSE DigitsValue(digits)
  IN
  IF digits = <<>> \/ \E i \in 1..Len(digits) : ~IsDigit(digits[i])
    THEN [err |-> TRUE, n |-> 0]
  ELSE IF n > MaxInt THEN [err |-> TRUE, n |-> MaxInt]
  ELSE IF n < MinInt THEN [err |-> TRUE, n |-> MinInt]
  ELSE [err |-> FALSE, n |-> n]

\* pagination.Parse
Parse(page, size, defaults) ==
  LET p == Atoi(page)
      z == Atoi(size)
      pageNum == IF p.err \/ p.n < 1 THEN defaults.DefaultPage ELSE p.n
      pageSize == IF z.err \/ z.n < 1 THEN defaults.DefaultSize ELSE z.n
  IN
  [page |-> pageNum,
   size |-> IF pageSize > defaults.MaxSize THEN defaults.MaxSize ELSE pageSize]

\* the decimal numeral of a natural number
RECURSIVE Decimal(_)
Decimal(n) ==
  IF n < 10 THEN <<DigitChars[n + 1]>>
  ELSE Append(Decimal(n \div 10), DigitChars[(n % 10) + 1])

\* values of the page and page_size parameters that callers send
ParamStrings ==
  { NoParam, <<"a">>, <<"-">>, <<"1", "x">>, <<"-", "1">>, <<"+", "2">> }
    \cup { Decimal(n) : n \in {0, 1, 2, 3, CfgMaxSize, CfgMaxSize + 1,
                               MaxInt, MaxInt + 1} }

\* ListTasks, lines 117-125, and the offset TaskRepo.List computes from the
\* filter it is handed
ParseQuery(w) ==
  LET c == call[w]
      parsed == Parse(c.query.page, c.query.page_size, HandlerDefaults)
  IN
  /\ c.pc = "parse"
  /\ call' = [call EXCEPT ![w] =
       [c EXCEPT !.pc = "parsed",
                 !.filter = [c.filter EXCEPT !.page = parsed.page,
                                             !.size = parsed.size]]]
  /\ UNCHANGED <<tasks, used, clock, calls, nOk>>

\* one listing request with any page and page_size parameter
ParseInit ==
  /\ tasks = <<>>
  /\ used = {}
  /\ clock = [app |-> 1, db |-> 1]
  /\ \E page \in ParamStrings, size \in ParamStrings :
       call = [w \in Workers |->
         IF w = 1
           THEN [Idle EXCEPT !.op = "list", !.pc = "parse",
                             !.query = [NoQuery EXCEPT !.page = page,
                                                       !.page_size = size]]
           ELSE Idle]
  /\ calls = 1
  /\ nOk = [t \in Ids |-> 0]

ParseNext == \E w \in Workers : ParseQuery(w)

ParseSpec == ParseInit /\ [][ParseNext]_vars

\* C21 (page parameters): the parameters are normalized, never rejected.  A
\* page parameter that is missing, not a number or below 1 gives page 1, and
\* the numeral of a page from 1 on gives that page; a page_size that is
\* missing, not a number or below 1 gives the default, one above the maximum
\* gives the maximum; so page >= 1 and 1 <= pageSize <= maximum; and the
\* offset the store query uses is the product (page - 1) * pageSize.
PageParamsNormalized ==
  \A w \in Workers : call[w].pc = "parsed" =>
    LET q == call[w].query
        f == call[w].filter
    IN
    /\ f.page >= 1
    /\ f.size >= 1 /\ f.size <= CfgMaxSize
    /\ q.page \in {NoParam, <<"a">>, <<"-">>, <<"1", "x">>, <<"-", "1">>,
                   Decimal(0)} => f.page = 1
    /\ \A n \in 1..MaxInt : q.page = Decimal(n) => f.page = n
    /\ q.page_size \in {NoParam, <<"a">>, <<"-">>, <<"1", "x">>, <<"-", "1">>,
                        Decimal(0)} => f.size = CfgDefaultSize
    /\ \A n \in 1..CfgMaxSize : q.page_size = Decimal(n) => f.size = n
    /\ q.page_size = Decimal(CfgMaxSize + 1) => f.size = CfgMaxSize
    /\ Offset(f) = (f.page - 1) * f.size

\* ------------------------------------------------------------ list handler
isValidStatus(status) == status \in Statuses

\* (mutant) a handler that lets every sort token through
isValidSortFieldAny(sort) == TRUE

isValidSortField(sort) == sort \in Sorts

\* respondWithError(w, http.StatusBadRequest, code, ...) and return: the
\* handler answers without calling the service
Reject(w, c, code) ==
  /\ CanStart(w)
  /\ call' = [call EXCEPT ![w] =
       [c EXCEPT !.pc = "done", !.resp = Resp(400, code)]]
  /\ calls' = calls + 1
  /\ UNCHANGED <<tasks, used, clock, nOk>>

\* ListTasks, lines 127-146: the status and the sort the filter gets
FilterStatus(q) == IF q.status = "" THEN Nil ELSE q.status

FilterSort(q) == IF q.sort = "" THEN "-created_at" ELSE q.sort

\* ListTasks up to the count query of the List it calls
ListTasks(w, q) ==
  LET c == [Begin(w, "list", 0, NoReq) EXCEPT !.query = q]
      parsed == Parse(q.page, q.page_size, HandlerDefaults)
  IN
  IF q.status # "" /\ ~isValidStatus(q.status)
    THEN Reject(w, c, "invalid_status")
  ELSE IF ~isValidSortField(FilterSort(q))
    THEN Reject(w, c, "invalid_sort")
  ELSE ListCountFrom(w, c,
         [status |-> FilterStatus(q), page |-> parsed.page,
          size |-> parsed.size, sort |-> FilterSort(q)])

\* the URL queries callers send
ListQueries ==
  [page : {NoParam, Decimal(2)}, page_size : {NoParam, Decimal(2)},
   status : {"", StatusInProgress, "Done"},
   sort : Sorts \cup {"", "title"}]

\* a caller paging through one listing keeps status, sort and page_size
SameQuery(q) ==
  \A w \in Workers :
    call[w].op = "list" =>
      /\ call[w].query.status = q.status
      /\ call[w].query.sort = q.sort
      /\ call[w].query.page_size = q.page_size

\* Reads through the handlers, on a table no one writes to
QueryNext ==
  \E w \in Workers :
    \/ \E q \in ListQueries : SameQuery(q) /\ ListTasks(w, q)
    \/ ListSelect(w)
    \/ \E t \in ListTargets \cup UnknownIds : Get(w, t)

QuerySpec == ListInit /\ [][QueryNext]_vars

\* the handler answered 400 without calling the service
Rejected(w, code) ==
  /\ Done(w)
  /\ call[w].resp = Resp(400, code)
  /\ call[w].filter = NoFilter /\ call[w].total = 0 /\ call[w].list = NoList

\* the store was queried for the call
Queried(w) == call[w].filter # NoFilter

\* C22 (sort tokens): a listing request with one of the tokens created_at,
\* -created_at, due_date, -due_date (and an acceptable status) is listed under
\* that token; one without a sort is listed as -created_at, newest first; one
\* with any other token is answered 400 without the store being queried.
SortTokens ==
  \A w \in Workers : call[w].op = "list" =>
    LET q == call[w].query
        tokens == {"created_at", "-created_at", "due_date", "-due_date"}
        statusOk == q.status \in {""} \cup Statuses
    IN
    /\ (q.sort \in tokens /\ statusOk) =>
         /\ Queried(w) /\ call[w].filter.sort = q.sort
         /\ Done(w) => call[w].resp = Resp(200, "")
    /\ (q.sort = "" /\ statusOk) =>
         /\ Queried(w) /\ call[w].filter.sort = "-created_at"
         /\ Done(w) =>
              /\ call[w].resp = Resp(200, "")
              /\ \A i, j \in DOMAIN Items(w) :
                   i < j => Items(w)[i].task.created_at
                              >= Items(w)[j].task.created_at
    /\ q.sort \notin tokens \cup {""} =>
         /\ ~Queried(w)
         /\ Rejected(w, "invalid_sort") \/ Rejected(w, "invalid_status")
         /\ statusOk => Rejected(w, "invalid_sort")

\* sort=title on a table that holds tasks is answered invalid_sort
SortTokensWitness ==
  \E w \in Workers :
    /\ call[w].op = "list"
    /\ call[w].query.sort = "title"
    /\ Rejected(w, "invalid_sort")
    /\ tasks # <<>>

\* the identifiers of the returned items, in the order returned
ItemSeq(w) == [i \in DOMAIN Items(w) |-> Items(w)[i].id]

\* C23 (status filter): a listing request whose status is none of Pending,
\* InProgress, Completed, Cancelled is answered 400 without a query; with one
\* of them the items all have that status, totalItems counts the stored tasks
\* having it, and a first page that is large enough holds exactly those
\* tasks; without a status the same holds for all stored tasks.  On the table
\* {Pending, InProgress, InProgress} created at distinct times,
\* status=InProgress sorted -created_at returns the two InProgress tasks, the
\* newer one first.
StatusFiltering ==
  \A w \in Workers : call[w].op = "list" =>
    LET q == call[w].query
        f == call[w].filter
        m == call[w].list.meta
        having == IF q.status = "" THEN DOMAIN tasks
                  ELSE { t \in DOMAIN tasks : tasks[t].status = q.status }
        example == TableOf(<< StoredRow(StatusPending, 2, -2),
                              StoredRow(StatusInProgress, NoTime, -1),
                              StoredRow(StatusInProgress, 1, 1) >>)
    IN
    /\ q.status \notin {""} \cup {"Pending", "InProgress", "Completed",
                                 "Cancelled"} =>
         Rejected(w, "invalid_status") /\ ~Queried(w)
    /\ (Done(w) /\ Queried(w)) =>
         /\ call[w].resp = Resp(200, "")
         /\ \A i \in DOMAIN Items(w) :
              /\ Items(w)[i].id \in having
              /\ Items(w)[i].task = tasks[Items(w)[i].id]
         /\ m.totalItems = Cardinality(having)
         /\ (f.page = 1 /\ f.size >= Cardinality(having)) =>
              /\ ItemIds(w) = having
              /\ Len(Items(w)) = Cardinality(having)
         /\ ( /\ tasks = example
              /\ q.status = "InProgress"
              /\ f.sort = "-created_at"
              /\ f.page = 1 ) =>
              ItemSeq(w) = << NumIds + 4, NumIds + 3 >>

\* the example: the two InProgress tasks of three, newest first
StatusFilteringWitness ==
  \E w \in Workers :
    /\ Done(w) /\ call[w].op = "list"
    /\ call[w].query.status = "InProgress"
    /\ call[w].query.sort = "-created_at"
    /\ Cardinality(DOMAIN tasks) = 3
    /\ \E t \in DOMAIN tasks : tasks[t].status = StatusPending
    /\ \A t, u \in DOMAIN tasks : t # u => tasks[t].created_at # tasks[u].created_at
    /\ ItemSeq(w) = << NumIds + 4, NumIds + 3 >>

\* C24 (reads have no effect): a step of a Get or of a List, whether the call
\* succeeds, finds nothing or is rejected, leaves the tasks table as it was:
\* the same tasks, each with the same fields.
ReadsHaveNoEffect ==
  [][ (\E w \in Workers :
         /\ call'[w] # call[w]
         /\ call'[w].op \in {"get", "list"})
      => /\ DOMAIN tasks' = DOMAIN tasks
         /\ \A t \in DOMAIN tasks : tasks'[t] = tasks[t]
         /\ used' = used ]_vars

\* a Get that found nothing and a List that returned items have both run on
\* a table that holds tasks
ReadsHaveNoEffectWitness ==
  \E w, v \in Workers :
    /\ Done(w) /\ call[w].op = "get" /\ call[w].err = SvcErrNotFound
    /\ Done(v) /\ call[v].op = "list" /\ Items(v) # <<>>
    /\ tasks \in ListTables /\ tasks # <<>>

\* ------------------------------------------------------- list under writes
\* Listings of a table that creates, updates, patches and deletes write to
\* in the meantime.  The writers name the oldest task (Pending at first); the
\* update makes it InProgress, the patch Cancelled.
SkewTables ==
  { TableOf(<< StoredRow(StatusPending, 2, -2),
               StoredRow(StatusInProgress, NoTime, -1),
               StoredRow(StatusInProgress, 1, 1) >>) }

SkewInit ==
  /\ tasks \in SkewTables
  /\ used = DOMAIN tasks
  /\ clock = [app |-> 1, db |-> 1]
  /\ call = [w \in Workers |-> Idle]
  /\ calls = 0
  /\ nOk = [t \in Ids \cup DOMAIN tasks |-> 0]

SkewFilters ==
  [status : {Nil, StatusInProgress}, page : {1, 2}, size : PageSizes,
   sort : {"-created_at"}]

SkewUpdates ==
  { WithVersion(b, 1) : b \in { x \in UpdateBodies : x.status = StatusInProgress } }

SkewPatches ==
  { WithVersion(b, NoVersion) : b \in { x \in PatchBodies : x.status = StatusCancelled } }

SkewNext ==
  \E w \in Workers :
    \/ \E filter \in SkewFilters : ListCount(w, filter)
    \/ ListSelect(w)
    \/ \E req \in ListCreates : Create(w, req)
    \/ \E t \in ListTargets : Delete(w, t)
    \/ \E t \in ListTargets, req \in SkewUpdates : UpdateLoad(w, t, req)
    \/ UpdateSave(w)
    \/ UpdateExists(w)
    \/ UpdateRefresh(w)
    \/ \E t \in ListTargets, req \in SkewPatches : PatchLoad(w, t, req)
    \/ PatchSave(w)

SkewSpec == SkewInit /\ [][SkewNext]_vars

\* C25 (list under concurrent writes): whatever was committed before the
\* count query, between the two queries or after them, the items a List
\* returns are rows as they are stored when the page query runs, each
\* satisfies the status filter, no task comes twice, and there are at most
\* pageSize of them; the meta repeats the requested page and page size.
ListUnderWrites ==
  [][ \A w \in Workers :
        (call[w].op = "list" /\ ~Done(w) /\ call'[w].pc = "done") =>
          LET items == call'[w].list.items
              f == call[w].filter
          IN
          /\ Len(items) <= f.size
          /\ \A i \in DOMAIN items :
               /\ items[i].id \in DOMAIN tasks
               /\ items[i].task = tasks[items[i].id]
               /\ Matches(items[i].task, f.status)
          /\ \A i, j \in DOMAIN items : i # j => items[i].id # items[j].id
          /\ call'[w].list.meta.page = f.page
          /\ call'[w].list.meta.pageSize = f.size ]_vars

\* a List whose count was overtaken: it returns more items than it counted
ListUnderWritesWitness ==
  \E w \in Workers :
    /\ ListDone(w)
    /\ call[w].seen # tasks
    /\ Len(Items(w)) > call[w].list.meta.totalItems

\* ----------------------------------------------------------- write handlers
\* validate:"...,max=200" of the title
TitleMax == 200

\* titles of exactly TitleMax and of TitleMax + 1 characters
LongTitle == "a title of TitleMax characters"
TooLongTitle == "a title of TitleMax + 1 characters"

\* utf8.RuneCountInString of the titles callers send
RuneCount(title) ==
  CASE title = "" -> 0
    [] title = LongTitle -> TitleMax
    [] title = TooLongTitle -> TitleMax + 1
    [] OTHER -> 2

\* json.Decoder.Decode into a string member: absent is the empty string
DecodeString(x) == IF x = Nil THEN "" ELSE x

\* json.Decoder.Decode into an int member: absent is 0
DecodeInt(v) == IF v = <<>> THEN 0 ELSE v[1]

\* json.Decoder.Decode into domain.CreateTaskRequest
DecodeCreate(body) ==
  [title |-> DecodeString(body.title), description |-> body.description,
   status |-> body.status, due_date |-> body.due_date, version |-> NoVersion]

\* json.Decoder.Decode into domain.UpdateTaskRequest
DecodeUpdate(body) ==
  [title |-> DecodeString(body.title), description |-> body.description,
   status |-> DecodeString(body.status), due_date |-> body.due_date,
   version |-> DecodeInt(body.version)]

\* json.Decoder.Decode into domain.PatchTaskRequest, but for its Version
DecodePatch(body) ==
  [title |-> body.title, description |-> body.description,
   status |-> body.status, due_date |-> body.due_date, version |-> NoVersion]

\* UpdateTask, lines 182-186: the If-Match header as a version, 0 if it holds
\* no positive integer
IfMatchVersion(ifMatch) ==
  IF ifMatch # NoParam /\ ~Atoi(ifMatch).err /\ Atoi(ifMatch).n > 0
  THEN Atoi(ifMatch).n ELSE 0

\* (mutant) a PUT handler that prefers the header to the body
UpdateVersionHeaderFirst(version, ifMatch) ==
  IF IfMatchVersion(ifMatch) # 0 THEN IfMatchVersion(ifMatch) ELSE version

\* UpdateTask, lines 180-188: req.Version after the look at the header
UpdateVersion(version, ifMatch) ==
  IF version = 0 /\ IfMatchVersion(ifMatch) # 0
  THEN IfMatchVersion(ifMatch) ELSE version

\* PatchTask, lines 230-238: req.Version (<<>> for nil) after the look at the
\* header
PatchVersion(version, ifMatch) ==
  IF version = <<>> /\ IfMatchVersion(ifMatch) # 0
  THEN <<IfMatchVersion(ifMatch)>> ELSE version

\* validate:"required,min=1,max=200" on a string
TitleValid(title) == RuneCount(title) >= 1 /\ RuneCount(title) <= TitleMax

\* validate:"oneof=Pending InProgress Completed Cancelled"
OneOfStatuses(status) == status \in Statuses

\* Validate.Struct on a domain.CreateTaskRequest
ValidCreate(req) ==
  /\ TitleValid(req.title)
  /\ req.status = Nil \/ OneOfStatuses(req.status)

\* (mutant) an UpdateTaskRequest whose Version is not required
ValidUpdateAnyVersion(req) ==
  /\ TitleValid(req.title)
  /\ OneOfStatuses(req.status)

\* Validate.Struct on a domain.UpdateTaskRequest
ValidUpdate(req) ==
  /\ TitleValid(req.title)
  /\ OneOfStatuses(req.status)
  /\ req.version # 0 /\ req.version >= 1

\* (mutant) a PatchTaskRequest whose Title is not validated
ValidPatchAnyTitle(req, version) ==
  /\ req.status = Nil \/ OneOfStatuses(req.status)
  /\ version = <<>> \/ version[1] >= 1

\* Validate.Struct on a domain.PatchTaskRequest: omitempty skips a nil member
\* only
ValidPatch(req, version) ==
  /\ req.title = Nil \/ TitleValid(req.title)
  /\ req.status = Nil \/ OneOfStatuses(req.status)
  /\ version = <<>> \/ version[1] >= 1

\* CreateTask
CreateTask(w, body) ==
  LET req == DecodeCreate(body)
      c == [Begin(w, "create", 0, req) EXCEPT !.body = body]
  IN
  IF ~ValidCreate(req) THEN Reject(w, c, "validation_error")
  ELSE CreateFrom(w, c, req)

\* UpdateTask up to the first store access of the Update it calls
UpdateTask(w, t, body, ifMatch) ==
  LET decoded == DecodeUpdate(body)
      req == [decoded EXCEPT !.version = UpdateVersion(decoded.version, ifMatch)]
      c == [Begin(w, "update", t, req) EXCEPT !.body = body,
                                               !.ifMatch = ifMatch]
  IN
  IF ~ValidUpdate(req) THEN Reject(w, c, "validation_error")
  ELSE UpdateLoadFrom(w, c, t, req)

\* PatchTask up to the first store access of the Patch it calls; a version
\* that passed validation is at least 1, so NoVersion stands for nil only
PatchTask(w, t, body, ifMatch) ==
  LET version == PatchVersion(body.version, ifMatch)
      req == [DecodePatch(body) EXCEPT !.version = DecodeInt(version)]
      c == [Begin(w, "patch", t, req) EXCEPT !.body = body,
                                              !.ifMatch = ifMatch]
  IN
  IF ~ValidPatch(req, version) THEN Reject(w, c, "validation_error")
  ELSE PatchLoadFrom(w, c, t, req)

\* the JSON bodies callers send: well-formed ones, and ones with a title that
\* is absent, empty or too long, or a status that is absent or no Status
HttpCreateBodies ==
  { JsonBody("t1", Nil, Nil, NoTime, <<>>),
    JsonBody(LongTitle, "d1", StatusInProgress, 1, <<>>),
    JsonBody(Nil, "d1", Nil, NoTime, <<>>),
    JsonBody("", Nil, StatusInProgress, NoTime, <<>>),
    JsonBody(TooLongTitle, Nil, Nil, NoTime, <<>>),
    JsonBody("t1", Nil, "Done", NoTime, <<>>) }

HttpUpdateBodies ==
  { JsonBody("t2", Nil, StatusCompleted, NoTime, <<1>>),
    JsonBody(LongTitle, "d2", StatusInProgress, 2, <<2>>),
    JsonBody("", Nil, StatusCompleted, NoTime, <<1>>),
    JsonBody(TooLongTitle, Nil, StatusCompleted, NoTime, <<1>>),
    JsonBody("t2", Nil, Nil, NoTime, <<1>>),
    JsonBody("t2", Nil, "Done", NoTime, <<1>>) }

HttpPatchBodies ==
  { JsonBody(Nil, Nil, StatusCancelled, NoTime, <<>>),
    JsonBody(LongTitle, "d3", Nil, 2, <<1>>),
    JsonBody("", Nil, Nil, NoTime, <<>>),
    JsonBody(TooLongTitle, Nil, Nil, NoTime, <<1>>),
    JsonBody(Nil, Nil, "Done", NoTime, <<>>) }

\* the tasks the requests name: the oldest one, and an unknown one
HttpTargets == ListTargets \cup UnknownIds

\* Requests through the handlers, without an If-Match header
HttpNext ==
  \E w \in Workers :
    \/ \E body \in HttpCreateBodies : CreateTask(w, body)
    \/ \E t \in HttpTargets : Get(w, t)
    \/ \E t \in ListTargets : Delete(w, t)
    \/ \E t \in HttpTargets, body \in HttpUpdateBodies :
         UpdateTask(w, t, body, NoParam)
    \/ UpdateSave(w)
    \/ UpdateExists(w)
    \/ UpdateRefresh(w)
    \/ \E t \in HttpTargets, body \in HttpPatchBodies :
         PatchTask(w, t, body, NoParam)
    \/ PatchSave(w)

HttpSpec == Init /\ [][HttpNext]_vars

\* C26 (typed failures reach the caller): a GET, PUT or PATCH whose call
\* returned not-found is answered 404 not_found, a PUT or PATCH whose call
\* returned a version conflict is answered 409 version_conflict; neither is
\* answered 500 internal_error.
TypedFailuresReachCaller ==
  \A w \in Workers :
    (Done(w) /\ call[w].op \in {"get", "update", "patch"}) =>
      /\ call[w].err \in {SvcErrNotFound, RepoErrNotFound} =>
           call[w].resp = Resp(404, "not_found")
      /\ call[w].err \in {SvcErrVersionConflict, RepoErrVersionConflict} =>
           call[w].resp = Resp(409, "version_conflict")

\* a body whose title is empty or longer than 200 characters, or whose status
\* is none of the four
Violating(body) ==
  \/ body.title # Nil /\ RuneCount(body.title) \notin 1..200
  \/ body.status \notin {Nil, "Pending", "InProgress", "Completed", "Cancelled"}

\* C27 (field validation): whatever creates, updates and patches come through
\* the handlers, every stored task has a title of 1 to 200 characters and one
\* of the four statuses; a request whose body violates either is answered 400
\* validation_error, and its step leaves the table as it was.
StoredFieldsValid ==
  /\ [](\A t \in DOMAIN tasks :
          /\ RuneCount(tasks[t].title) \in 1..200
          /\ tasks[t].title \notin {Nil, ""}
          /\ tasks[t].status \in {"Pending", "InProgress", "Completed",
                                  "Cancelled"})
  /\ [](\A w \in Workers :
          (call[w].op \in {"create", "update", "patch"}
             /\ Violating(call[w].body)) =>
            /\ Done(w) /\ call[w].resp = Resp(400, "validation_error")
            /\ ~call[w].wrote /\ call[w].attempts = 0
            /\ call[w].ret = NoTask)
  /\ [][ \A w \in Workers :
           (call'[w] # call[w] /\ Violating(call'[w].body)) =>
             tasks' = tasks /\ used' = used ]_vars

\* a PATCH with an empty title of a stored task was rejected, and a task with
\* a title of 200 characters is stored
StoredFieldsValidWitness ==
  /\ \E w \in Workers :
       /\ call[w].op = "patch" /\ call[w].body.title = ""
       /\ Exists(call[w].id)
       /\ call[w].resp = Resp(400, "validation_error")
  /\ \E t \in DOMAIN tasks : RuneCount(tasks[t].title) = 200

\* ------------------------------------------------------------ store failures
\* A statement of an Update or a Patch under way fails in the store and
\* changes nothing: TaskRepo.Update (lines 227 and 235), TaskRepo.Patch (line
\* 306) and TaskRepo.Get (line 85) wrap the error, and taskService.Update and
\* taskService.Patch return it
StoreFails(w) ==
  LET c == call[w] IN
  /\ c.pc \in {"update_save", "update_exists", "update_refresh", "patch_save"}
  /\ call' = [call EXCEPT ![w] =
       Finish([c EXCEPT !.attempts =
                 IF c.pc \in {"update_save", "patch_save"} THEN @ + 1 ELSE @],
              StoreErr, NoTask)]
  /\ UNCHANGED <<tasks, used, clock, calls, nOk>>

RetryUpdates ==
  { r \in UpdateReqs : r.status = StatusInProgress }

RetryPatches ==
  { r \in PatchReqs : r.status = StatusCancelled }

\* Updates, patches and deletes of the stored task, on a store whose
\* statements may fail
RetryNext ==
  \E w \in Workers :
    \/ \E t \in used : Delete(w, t)
    \/ \E t \in used, req \in RetryUpdates : UpdateLoad(w, t, req)
    \/ UpdateSave(w)
    \/ UpdateExists(w)
    \/ UpdateRefresh(w)
    \/ \E t \in used, req \in RetryPatches : PatchLoad(w, t, req)
    \/ PatchSave(w)
    \/ StoreFails(w)

RetrySpec == RaceInit /\ [][RetryNext]_vars

\* C28 (no retry): an Update or Patch call issues its conditional write at
\* most once; when that write missed or failed the call ends with
\* VersionConflict, NotFound or the store's error, and from its write attempt
\* on no step of the call changes the table or attempts a write again.
NoRetry ==
  /\ [](\A w \in Workers :
          /\ call[w].attempts <= 1
          /\ call[w].attempts = 1 => call[w].pc \notin {"update_save", "patch_save"}
          /\ (Done(w) /\ call[w].attempts = 1 /\ ~call[w].wrote) =>
               call[w].err \in {SvcErrVersionConflict, SvcErrNotFound, StoreErr}
          /\ (Done(w) /\ call[w].err = StoreErr) => call[w].attempts <= 1)
  /\ [][ \A w \in Workers :
           ( /\ call[w].pc \notin {"idle", "done"}
             /\ call[w].attempts >= 1
             /\ call'[w] # call[w] ) =>
             /\ tasks' = tasks
             /\ call'[w].attempts = call[w].attempts
             /\ call'[w].pc = "done" ]_vars

\* an update whose one write missed has returned VersionConflict, and a call
\* whose one write failed in the store has returned the store's error
NoRetryWitness ==
  /\ \E w \in Workers :
       /\ Done(w) /\ call[w].op = "update"
       /\ call[w].attempts = 1 /\ ~call[w].wrote
       /\ call[w].err = SvcErrVersionConflict
  /\ \E w \in Workers :
       /\ Done(w) /\ call[w].attempts = 1 /\ call[w].err = StoreErr

\* ------------------------------------------------------- expected version
\* PUT and PATCH requests for the stored task that differ in where they carry
\* the expected version: in the body, in the If-Match header, in both, in
\* neither.
VersionMembers == {<<>>, <<0>>, <<1>>, <<2>>}

IfMatchHeaders ==
  {NoParam, Decimal(1), Decimal(2), Decimal(0), <<"a">>, <<"-", "1">>}

IfMatchUpdates ==
  { JsonBody("t2", Nil, StatusCompleted, NoTime, v) : v \in VersionMembers }

IfMatchPatches ==
  { JsonBody(Nil, Nil, StatusCancelled, NoTime, v) : v \in VersionMembers }

\* one client: all its requests carry the same If-Match header
SameHeader(ifMatch) ==
  \A w \in Workers : call[w].op # "none" => call[w].ifMatch = ifMatch

IfMatchNext ==
  \E w \in Workers :
    \/ \E t \in used, body \in IfMatchUpdates, ifMatch \in IfMatchHeaders :
         SameHeader(ifMatch) /\ UpdateTask(w, t, body, ifMatch)
    \/ UpdateSave(w)
    \/ UpdateExists(w)
    \/ UpdateRefresh(w)
    \/ \E t \in used, body \in IfMatchPatches, ifMatch \in IfMatchHeaders :
         SameHeader(ifMatch) /\ PatchTask(w, t, body, ifMatch)
    \/ PatchSave(w)

IfMatchSpec == RaceInit /\ [][IfMatchNext]_vars

\* C29 (PUT without a version): a PUT whose body has no version, or version
\* 0, and whose If-Match header is absent or holds no positive integer is
\* answered 400 validation_error without a call to the service, and its step
\* leaves the stored task as it was.
PutNeedsVersion ==
  /\ [](\A w \in Workers :
          ( /\ call[w].op = "update"
            /\ call[w].body.version \in {<<>>, <<0>>}
            /\ call[w].ifMatch \in {<<>>, <<"0">>, <<"a">>, <<"-", "1">>} ) =>
            /\ Done(w) /\ call[w].resp = Resp(400, "validation_error")
            /\ call[w].loaded = NoTask /\ call[w].attempts = 0
            /\ ~call[w].wrote)
  /\ [][ \A w \in Workers :
           ( /\ call'[w] # call[w]
             /\ call'[w].op = "update"
             /\ call'[w].body.version \in {<<>>, <<0>>}
             /\ call'[w].ifMatch \in {<<>>, <<"0">>, <<"a">>, <<"-", "1">>} ) =>
             tasks' = tasks ]_vars

\* a PUT of the stored task with no version in the body and an If-Match
\* header that is no number was rejected
PutNeedsVersionWitness ==
  \E w \in Workers :
    /\ Done(w) /\ call[w].op = "update"
    /\ call[w].body.version = <<>> /\ call[w].ifMatch = <<"a">>
    /\ Exists(call[w].id)
    /\ call[w].resp = Resp(400, "validation_error")

\* the expected version the request names in its body (a PUT names none by 0)
BodyVersion(w) ==
  IF call[w].body.version = <<>> THEN 0
  ELSE IF call[w].op = "update" /\ call[w].body.version = <<0>> THEN 0
  ELSE call[w].body.version[1]

BodyHasVersion(w) ==
  /\ call[w].body.version # <<>>
  /\ call[w].op = "update" => call[w].body.version # <<0>>

PatchHonoursIfMatch ==
  [][ \A w \in Workers :
        ( /\ call'[w] # call[w]
          /\ call'[w].op = "patch"
          /\ call'[w].body.version = <<>>
          /\ call'[w].ifMatch # <<>>
          /\ tasks' # tasks ) =>
          /\ Exists(call'[w].id)
          /\ tasks[call'[w].id].version >= 1
          /\ call'[w].ifMatch = Decimal(tasks[call'[w].id].version) ]_vars

\* C32 (patch returns its own write): the task a successful Patch returns is
\* the row as it was stored right after that patch's own write: same title,
\* description, status, due_date, version and updated_at (and created_at),
\* whatever other writers of the same task did before and after.
PatchReturnsOwnWrite ==
  \A w \in Workers :
    (Done(w) /\ call[w].op = "patch" /\ call[w].err = NoErr) =>
      /\ call[w].wrote
      /\ call[w].ret.title = call[w].post.title
      /\ call[w].ret.description = call[w].post.description
      /\ call[w].ret.status = call[w].post.status
      /\ call[w].ret.due_date = call[w].post.due_date
      /\ call[w].ret.version = call[w].post.version
      /\ call[w].ret.updated_at = call[w].post.updated_at
      /\ call[w].ret.created_at = call[w].post.created_at

\* a patch has returned its row although the task has been written again
\* since, and the store clock had moved on when the patch wrote
PatchReturnsOwnWriteWitness ==
  \E w \in Workers :
    /\ Done(w) /\ call[w].op = "patch" /\ call[w].err = NoErr
    /\ call[w].post.updated_at # call[w].pre.updated_at
    /\ Exists(call[w].id)
    /\ tasks[call[w].id].version > call[w].ret.version

\* C33 (failed update wrote nothing): an Update that returns an error has
\* had no write of its own applied: it changed no row and raised no version.
FailedUpdateWroteNothing ==
  \A w \in Workers :
    (Done(w) /\ call[w].op = "update" /\ call[w].err # NoErr) =>
      /\ ~call[w].wrote
      /\ call[w].post = NoTask

\* ------------------------------------------------------------ HTTP client
\* src/internal/platform/db/pg.go, package httpclient

\* largest MaxRetries a client is configured with
MaxMaxRetries == 2

Methods == {"GET", "HEAD", "OPTIONS", "PUT", "DELETE", "POST", "PATCH"}

\* statuses a server answers with
ServerStatuses == {200, 204, 400, 404, 409, 429, 500, 501, 503}

\* what an attempt can meet: a transport error, the context cancelled or
\* past its deadline, a failed read of the response body, or a status
Outcomes ==
  { Outcome(k, 0) : k \in {"transport", "canceled", "deadline", "read"} }
    \cup { Outcome("status", st) : st \in ServerStatuses }

\* New, lines 128-130: a negative MaxRetries becomes 0
New(maxRetries) == IF maxRetries < 0 THEN 0 ELSE maxRetries

isIdempotentAny(method) == TRUE

\* isIdempotent, lines 336-343
isIdempotent(method) == method \in {"GET", "HEAD", "OPTIONS", "PUT", "DELETE"}

\* shouldRetryStatus, lines 318-326
shouldRetryStatus(method, status) ==
  IF status = 429 THEN isIdempotent(method)
  ELSE IF status >= 500 /\ status # 501 THEN isIdempotent(method)
  ELSE FALSE

\* shouldRetryError, lines 328-334
shouldRetryError(method, err) ==
  IF err \in {"deadline", "canceled"} THEN FALSE ELSE isIdempotent(method)

\* Client.Do, lines 205-207: the call is set up and enters the loop
ClientBegin(method, maxRetries) ==
  [Idle EXCEPT !.op = "client", !.pc = "client_send",
               !.client = [NoClient EXCEPT !.method = method,
                                           !.configured = maxRetries,
                                           !.MaxRetries = New(maxRetries)]]

\* Client.Do, lines 207-248: one pass of the loop up to its return or its
\* backoffWait.  attempts is incremented first, and the retry guards compare
\* the incremented counter with MaxRetries+1.
Attempt(c, out) ==
  LET method == c.client.method
      n == c.client.attempts + 1
      again == n <= c.client.MaxRetries + 1
      sent == [c.client EXCEPT !.attempts = n, !.last = out]
      return(err) == [c EXCEPT !.pc = "done",
                               !.client = [sent EXCEPT !.err = err]]
      wait == [c EXCEPT !.pc = "client_backoff", !.client = sent]
  IN IF out.kind = "read" THEN return("read")
     ELSE IF out.kind # "status"
       THEN IF shouldRetryError(method, out.kind) /\ again
              THEN wait ELSE return(out.kind)
     ELSE IF out.status >= 200 /\ out.status < 300 THEN return("nil")
     ELSE IF shouldRetryStatus(method, out.status) /\ again THEN wait
     ELSE return("http")

\* backoffWait, lines 345-366: the timer fires, or the context is done first
\* and Do returns the context's error
Backoff(c, ctxDone) ==
  IF ctxDone
    THEN [c EXCEPT !.pc = "done", !.client = [c.client EXCEPT !.err = "ctx"]]
    ELSE [c EXCEPT !.pc = "client_send"]

\* one call of Client.Do per behaviour, against a server that answers anything
ClientDo(w, method, maxRetries) ==
  /\ CanStart(w)
  /\ calls = 0
  /\ call' = [call EXCEPT ![w] = ClientBegin(method, maxRetries)]
  /\ calls' = calls + 1
  /\ UNCHANGED <<tasks, used, clock, nOk>>

ClientSend(w, out) ==
  /\ call[w].pc = "client_send"
  /\ call' = [call EXCEPT ![w] = Attempt(call[w], out)]
  /\ UNCHANGED <<tasks, used, clock, calls, nOk>>

ClientBackoff(w, ctxDone) ==
  /\ call[w].pc = "client_backoff"
  /\ call' = [call EXCEPT ![w] = Backoff(call[w], ctxDone)]
  /\ UNCHANGED <<tasks, used, clock, calls, nOk>>

ClientNext ==
  \E w \in Workers :
    \/ \E method \in Methods, maxRetries \in -1..MaxMaxRetries :
         ClientDo(w, method, maxRetries)
    \/ \E out \in Outcomes : ClientSend(w, out)
    \/ \E ctxDone \in BOOLEAN : ClientBackoff(w, ctxDone)

ClientSpec == Init /\ [][ClientNext]_vars

\* an outcome after which the claim allows a further attempt
Transient(out) ==
  \/ out.kind = "transport"
  \/ /\ out.kind = "status"
     /\ \/ out.status = 429
        \/ out.status \in 500..599 /\ out.status # 501

\* C34 (retries only idempotent methods): every attempt after the first is
\* made with GET, HEAD, OPTIONS, PUT or DELETE and follows an attempt that
\* met a transport error other than cancellation or deadline, a 429, or a
\* 5xx other than 501; a POST or PATCH is sent exactly once; and an attempt
\* answered 2xx or with a 4xx other than 429 is the call's last.
RetriesOnlyIdempotent ==
  [][ \A w \in Workers :
        call'[w].client.attempts > call[w].client.attempts =>
          /\ call[w].client.attempts >= 1 =>
               /\ call[w].client.method
                    \in {"GET", "HEAD", "OPTIONS", "PUT", "DELETE"}
               /\ Transient(call[w].client.last)
          /\ call'[w].client.method \in {"POST", "PATCH"} =>
               /\ call'[w].client.attempts = 1
               /\ call'[w].pc = "done"
          /\ ( /\ call'[w].client.last.kind = "status"
               /\ \/ call'[w].client.last.status \in 200..299
                  \/ call'[w].client.last.status \in (400..499) \ {429} ) =>
               call'[w].pc = "done" ]_vars

\* a PUT was answered 503, sent again and then answered 200
RetriesOnlyIdempotentWitness ==
  \E w \in Workers :
    /\ Done(w) /\ call[w].op = "client"
    /\ call[w].client.method = "PUT"
    /\ call[w].client.attempts >= 2
    /\ call[w].client.last = Outcome("status", 200)

\* C35 (bounded attempts): a call of Client.Do makes at most MaxRetries + 1
\* attempts, exactly one when the configured MaxRetries is 0 or negative.
AttemptsBounded ==
  \A w \in Workers :
    call[w].op = "client" =>
      call[w].client.attempts
        <= (IF call[w].client.configured < 0
              THEN 0 ELSE call[w].client.configured) + 1

\* ------------------------------------------------- a PUT sent by the client
\* Client.Do with method PUT against UpdateTask: each attempt is one request
\* to the handler, and the response may be lost on its way back.  The client
\* is the only writer and its attempts follow one another, so no conditional
\* write of a handler misses.

\* PutJSON, lines 260-262: the full update the client sends, with the version
\* it has read as expectedVersion
PutBodies(v) ==
  { JsonBody("t2", Nil, StatusCompleted, NoTime, <<v>>),
    JsonBody("t1", "d1", StatusInProgress, 1, <<v>>) }

\* the call of PutJSON begins: the request is built once (lines 152-203)
PutDo(w, t, body, maxRetries) ==
  /\ Started = {}
  /\ \A v \in Workers : v < w => call[v].pc # "idle"
  /\ call' = [call EXCEPT ![w] =
       [ClientBegin("PUT", maxRetries) EXCEPT !.id = t, !.body = body]]
  /\ UNCHANGED <<tasks, used, clock, calls, nOk>>

\* the client is about to send attempt number calls + 1
Sending(c) ==
  /\ call[c].op = "client"
  /\ call[c].pc = "client_send"
  /\ calls = call[c].client.attempts

\* the client has sent an attempt and waits in raw.Do
Awaiting(c) ==
  /\ call[c].op = "client"
  /\ call[c].pc = "client_send"
  /\ calls = call[c].client.attempts + 1

\* raw.Do, line 208: the same request reaches UpdateTask
PutSend(c, w) ==
  /\ Sending(c)
  /\ w # c
  /\ \A v \in Workers \ {c, w} : call[v].pc = "idle"
  /\ UpdateTask(w, call[c].id, call[c].body, NoParam)

\* raw.Do returns the handler's response
PutReceive(c, w) ==
  /\ Awaiting(c)
  /\ w # c /\ Done(w)
  /\ call' = [call EXCEPT ![c] =
       Attempt(call[c], Outcome("status", call[w].resp.status))]
  /\ UNCHANGED <<tasks, used, clock, calls, nOk>>

\* raw.Do returns an error although the handler has answered: the response
\* was lost
PutLost(c, w) ==
  /\ Awaiting(c)
  /\ w # c /\ Done(w)
  /\ call' = [call EXCEPT ![c] = Attempt(call[c], Outcome("transport", 0))]
  /\ UNCHANGED <<tasks, used, clock, calls, nOk>>

PutNext ==
  \/ \E w \in Workers, t \in RaceIds, maxRetries \in 0..MaxMaxRetries :
       \E body \in PutBodies(tasks[t].version) : PutDo(w, t, body, maxRetries)
  \/ \E c \in Workers, w \in Workers : PutSend(c, w)
  \/ \E c \in Workers, w \in Workers : PutReceive(c, w)
  \/ \E c \in Workers, w \in Workers : PutLost(c, w)
  \/ \E c \in Workers : call[c].op = "client" /\ ClientBackoff(c, FALSE)
  \/ \E w \in Workers : UpdateSave(w)
  \/ \E w \in Workers : UpdateRefresh(w)

PutSpec == RaceInit /\ [][PutNext]_vars

\* the handler of an attempt found the client's own update already applied
AlreadyApplied(w) ==
  /\ Done(w) /\ call[w].op = "update"
  /\ call[w].loaded # NoTask
  /\ call[w].loaded.version = call[w].req.version + 1

\* C36 (retrying a PUT): over all attempts of one PUT with expectedVersion V
\* the task's version rises by at most 1, by exactly 1 once an attempt was
\* answered 200, and an attempt that arrives after the update was applied is
\* answered 409 version_conflict.
PutRetrySafe ==
  /\ \A c \in Workers :
       call[c].op = "client" =>
         /\ tasks[call[c].id].version <= call[c].body.version[1] + 1
         /\ call[c].client.last = Outcome("status", 200) =>
              tasks[call[c].id].version = call[c].body.version[1] + 1
  /\ \A w \in Workers :
       AlreadyApplied(w) => call[w].resp = Resp(409, "version_conflict")

\* -------------------------------------------------------------- readiness
\* src/internal/http/handlers.go, Ready; src/unnamed/part_002 (main.go)

\* main, line 80: r.Get("/readyz", httphandlers.Ready(nil))
ReadyArg == Nil

\* Ready, lines 334-342: 503 for a nil argument, else 200 {"status":"ok"}
\* (the code member of the response holds the body's status)
Ready(db) ==
  IF db = Nil THEN Resp(503, "") ELSE Resp(200, "ok")

\* GET /readyz, the database reachable through the pool (up) or not; main
\* exits when db.New fails (lines 39-43), so a running service holds a pool
\* whose first ping succeeded
ReadyRequest(w, up) ==
  /\ CanStart(w)
  /\ call' = [call EXCEPT ![w] =
       [Begin(w, "ready", 0, NoReq) EXCEPT
          !.pc = "done",
          !.db = IF up THEN "up" ELSE "down",
          !.resp = Ready(ReadyArg)]]
  /\ calls' = calls + 1
  /\ UNCHANGED <<tasks, used, clock, nOk>>

\* the running service: tasks are created, read and deleted, and /readyz is
\* polled
ReadyNext ==
  \E w \in Workers :
    \/ \E req \in CreateBodies : Create(w, req)
    \/ \E t \in KnownIds : Get(w, t)
    \/ \E t \in KnownIds : Delete(w, t)
    \/ \E up \in BOOLEAN : ReadyRequest(w, up)

ReadySpec == Init /\ [][ReadyNext]_vars

\* C37 (readiness): a GET /readyz that comes while the database is reachable
\* through the pool is answered 200 with status ok, and one answered 503 came
\* while the database was not reachable.
ReadyReflectsDatabase ==
  \A w \in Workers :
    (Done(w) /\ call[w].op = "ready") =>
      /\ call[w].db = "up" => call[w].resp = Resp(200, "ok")
      /\ call[w].resp.status = 503 => call[w].db = "down"

====
